---- MODULE Spec2Model ----
(***************************************************************************)
(* Risk estimation and intervention-trigger engine of the relapse          *)
(* prevention app: the baseline profile builder, the peak window finder,   *)
(* the live risk aggregator, the safe-harbor scanners, the logistic        *)
(* predictor with its single-slot cache, and the intervention gate.        *)
(*                                                                         *)
(* Times are epoch milliseconds.  Real-valued quantities of the source are *)
(* kept exact as integers in a fixed scale (hundredths) or as fractions.   *)
(***************************************************************************)
EXTENDS Integers, Sequences, FiniteSets, TLC

VARIABLES
    tables,        \* names of the tables that exist in behavior.db
    handles,       \* the service modules whose db handle has been opened
    profileRows,   \* rows of user_profile, oldest first
    urgeDuration,  \* urge_duration of the latest user_profile row; "" when
                   \* there is no row or the row has no such column
    savePc,        \* progress of a running saveProfile
    now,           \* the clock: Date.now(), local time
    unlockStats,   \* events table, screen_on rows of the last 7 days: per
                   \* hour of day, their number and the number of days with any
    hourUrges,     \* urge_sessions and logs rows of the last 7 days that fall
                   \* in the clock's hour of day
    urgeEvents,    \* events table, URGE_LOGGED and LAPSE_LOGGED rows of the
                   \* last hour, oldest first
    unlockTimes,   \* events table, timestamps of the screen_on rows of the
                   \* last hour, oldest first
    lastUrgeLog,   \* logs table: <<timestamp>> of the newest urge row, or <<>>
    routineDone,   \* evening_routine has today's row with fully_completed = 1
    lastCheckIn,   \* check_ins: <<newest row>>, or <<>>
    interventionRows, \* interventions table: the rows' timestamps
    pendingShown,  \* logInterventionShown calls whose INSERT has not landed:
                   \* the timestamps they carry
    predictionCache, \* the predictor's slot: <<entry>>, or <<>> for null
    allocated,     \* number of PredictionResult objects built so far
    ui,            \* React state of the home screen
    loads,         \* loadRiskData runs that wait for the gate's answer
    timers,        \* due times of the pending 500 ms timers
    autoShown,     \* history: times at which a timer made the prompt visible
    runs,          \* asynchronous calls that were started: where each one is
                   \* and what it has read so far
    lastAppState,  \* dataCollection.ts: the app state its handler saw last
    listeners,     \* number of registered handleAppStateChange listeners
    delivered,     \* history: the app states that were notified, oldest first
    eventRows,     \* events table: the rows that the collector's handler and
                   \* logEvent appended, oldest first
    logRows,       \* logs table: its rows, oldest first
    pendingEvents, \* logEvent calls whose logs INSERT has landed and whose
                   \* events INSERT has not: their type and timestamp
    lastCall       \* the call that has returned and its outcome

\* The rows that the loggers write.
logStore == <<unlockStats, hourUrges, urgeEvents, unlockTimes, lastUrgeLog>>

\* The rows behind the predictor's context features.
context == <<routineDone, lastCheckIn>>

gateStore == <<interventionRows, pendingShown>>

predictor == <<predictionCache, allocated>>

app == <<ui, loads, timers, autoShown, runs>>

\* The passive collector's module state and the rows of the two logs.
journal == <<lastAppState, listeners, delivered, eventRows, logRows,
             pendingEvents>>

vars == <<tables, handles, profileRows, urgeDuration, savePc, now, logStore,
          context, gateStore, predictor, app, journal, lastCall>>

Hours == 0 .. 23

MinuteMs == 60000
HourMs == 3600000

\* new Date().getHours() and getMinutes().
getHours(t) == (t \div HourMs) % 24
getMinutes(t) == (t \div MinuteMs) % 60

Min(a, b) == IF a < b THEN a ELSE b
Max(a, b) == IF a > b THEN a ELSE b

\* Math.round of the fraction num / den (den > 0): half rounds up.
RoundDiv(num, den) == (2 * num + den) \div (2 * den)

(***************************************************************************)
(* Onboarding profile (index.tsx OnboardingFlow options)                   *)
(***************************************************************************)
ScreenTimes == {"<2 hours", "2-4 hours", "4-6 hours", "6+ hours"}
RiskWindowNames == {"morning", "afternoon", "evening", "latenight", "verylate"}
TriggerNames == {"stress", "loneliness", "boredom", "fatigue", "socialmedia"}
AlonePatterns == {"always", "usually", "sometimes", "rarely"}

\* The columns of a user_profile row that the estimators read.
Profiles ==
    [screenTime : ScreenTimes, riskHours : SUBSET RiskWindowNames,
     triggers : SUBSET TriggerNames, alonePattern : AlonePatterns]

\* A getUserProfile that keeps the row an earlier finished call had read.
getUserProfileCached ==
    IF \E i \in 1 .. Len(runs) : runs[i].pc = "done" /\ runs[i].seen # {}
    THEN LET first == CHOOSE i \in 1 .. Len(runs) :
                          /\ runs[i].pc = "done" /\ runs[i].seen # {}
                          /\ \A j \in 1 .. i - 1 :
                                 runs[j].pc # "done" \/ runs[j].seen = {}
             rows == (CHOOSE snapshot \in runs[first].seen : TRUE)[2]
         IN  IF rows = <<>> THEN <<>> ELSE <<rows[Len(rows)]>>
    ELSE IF \/ "riskProfile" \notin handles
            \/ "user_profile" \notin tables
            \/ profileRows = <<>>
         THEN <<>>
         ELSE <<profileRows[Len(profileRows)]>>

\* getUserProfile: null (<<>>) when the module's handle is not open, when
\* the table is missing (both queries fail) or empty, else the latest row
\* (ORDER BY created_at DESC LIMIT 1).
getUserProfile ==
    IF \/ "riskProfile" \notin handles
       \/ "user_profile" \notin tables
       \/ profileRows = <<>>
    THEN <<>>
    ELSE <<profileRows[Len(profileRows)]>>

\* A switch whose late-night window runs from 21 to midnight.
WindowHoursEarlyNight(timeWindow) ==
    CASE timeWindow = "morning" -> {6, 7, 8, 9, 10, 11}
      [] timeWindow = "afternoon" -> {12, 13, 14, 15, 16, 17}
      [] timeWindow = "evening" -> {18, 19, 20, 21}
      [] timeWindow = "latenight" -> {21, 22, 23, 0}
      [] timeWindow = "verylate" -> {2, 3, 4, 5}
      [] OTHER -> {}

\* The switch of calculate24HourProfile: a window name's hours.
WindowHours(timeWindow) ==
    CASE timeWindow = "morning" -> {6, 7, 8, 9, 10, 11}
      [] timeWindow = "afternoon" -> {12, 13, 14, 15, 16, 17}
      [] timeWindow = "evening" -> {18, 19, 20, 21}
      [] timeWindow = "latenight" -> {22, 23, 0, 1}
      [] timeWindow = "verylate" -> {2, 3, 4, 5}
      [] OTHER -> {}

\* baseRisk of one hour before the cap: the additions of calculate24HourProfile.
RawRisk(profile, hour) ==
    15
    + 35 * Cardinality({w \in profile.riskHours : hour \in WindowHours(w)})
    + (IF profile.screenTime = "6+ hours" THEN 10
       ELSE IF profile.screenTime = "4-6 hours" THEN 5 ELSE 0)
    + (IF "loneliness" \in profile.triggers /\ hour \in {20, 21, 22, 23, 0, 1, 2}
       THEN 15 ELSE 0)
    + (IF "fatigue" \in profile.triggers /\ hour \in {22, 23, 0, 1, 2, 3}
       THEN 15 ELSE 0)
    + (IF "boredom" \in profile.triggers /\ hour \in {12, 13, 14, 15, 20, 21, 22}
       THEN 10 ELSE 0)
    + (IF "socialmedia" \in profile.triggers /\ hour \in {19, 20, 21, 22, 23, 0}
       THEN 12 ELSE 0)
    + (IF profile.alonePattern = "always" \/ profile.alonePattern = "usually"
       THEN 8 ELSE 0)

\* The cap left out.
CapRiskMissing(raw) == raw

\* Cap at 95% max, floor at 5% min.
CapRisk(raw) == Min(95, Max(5, raw))

\* One entry of the returned array: the capped risk and its level.
HourEntry(hour, raw) ==
    LET baseRisk == CapRisk(raw)
    IN  [hour |-> hour, baseRisk |-> baseRisk,
         riskLevel |-> IF baseRisk >= 70 THEN "HIGH"
                       ELSE IF baseRisk >= 40 THEN "MODERATE" ELSE "LOW"]

\* The entries for the hours from `hour` to 23.  The 24-entry array of the
\* source is a sequence here: the entry of hour h is element h + 1.
RECURSIVE CurveFrom(_, _)
CurveFrom(found, hour) ==
    IF hour = 24 THEN <<>>
    ELSE <<IF found = <<>>
           THEN [hour |-> hour, baseRisk |-> 20, riskLevel |-> "LOW"]
           ELSE HourEntry(hour, RawRisk(found[1], hour))>>
         \o CurveFrom(found, hour + 1)

\* calculate24HourProfile on the result of getUserProfile.
ProfileCurve(found) == CurveFrom(found, 0)

calculate24HourProfile == ProfileCurve(getUserProfile)

\* profile[hour] of the source.
At(profile, hour) == profile[hour + 1]

(***************************************************************************)
(* Peak window finder                                                      *)
(***************************************************************************)
\* Sum of baseRisk over `length` hours from `start`, wrapping modulo 24.
RECURSIVE WindowSum(_, _, _)
WindowSum(profile, start, length) ==
    IF length = 0 THEN 0
    ELSE At(profile, (start + length - 1) % 24).baseRisk
         + WindowSum(profile, start, length - 1)

\* The end hour the loop records for a window.
WindowEnd(start, length) == (start + length) % 24

\* The inner loop of getPeakDangerWindow (length = 3 .. 6) for one start,
\* carrying the best window so far; maxAvg is the fraction maxSum / maxLen.
RECURSIVE LengthLoop(_, _, _, _)
LengthLoop(profile, start, length, best) ==
    IF length > 6 THEN best
    ELSE LET sum == WindowSum(profile, start, length)
         IN  IF sum * best.maxLen > best.maxSum * length
             THEN LengthLoop(profile, start, length + 1,
                      [maxSum |-> sum, maxLen |-> length, maxStart |-> start,
                       maxEnd |-> WindowEnd(start, length)])
             ELSE LengthLoop(profile, start, length + 1, best)

\* The outer loop (start = 0 .. 23).
RECURSIVE StartLoop(_, _, _)
StartLoop(profile, start, best) ==
    IF start = 24 THEN best
    ELSE StartLoop(profile, start + 1, LengthLoop(profile, start, 3, best))

\* getPeakDangerWindow on a curve and the profile read after it.
PeakWindow(profile, userProfile) ==
    LET best == StartLoop(profile, 0,
                    [maxSum |-> 0, maxLen |-> 1, maxStart |-> 0, maxEnd |-> 0])
    IN  [startHour |-> best.maxStart, endHour |-> best.maxEnd,
         avgRisk |-> RoundDiv(best.maxSum, best.maxLen),
         length |-> best.maxLen,
         triggers |-> IF userProfile = <<>> THEN {} ELSE userProfile[1].triggers]

\* The loop of getCurrentRisk that expands a peak window into peakHours:
\* from startHour, stepping (h + 1) % 24 until endHour, then endHour itself.
RECURSIVE PeakHoursFrom(_, _)
PeakHoursFrom(h, endHour) ==
    IF h = endHour THEN <<endHour>>
    ELSE <<h>> \o PeakHoursFrom((h + 1) % 24, endHour)

(***************************************************************************)
(* Profile store and estimators: the re-onboarding writer and the calls    *)
(***************************************************************************)
Idle == [op |-> "none"]

\* The tables of behavior.db that the engine reads.
AllTables ==
    {"user_profile", "events", "logs", "urge_sessions", "interventions",
     "evening_routine", "check_ins"}

\* Everything but the module handles and the returned value.
store == <<tables, profileRows, urgeDuration, savePc, now, logStore, context,
           gateStore, predictor, app, journal>>

\* The home screen as mounted: nothing loaded, no modal.
InitialUi ==
    [risk |-> <<>>, mlPrediction |-> <<>>, showIntervention |-> FALSE,
     showLapseSupport |-> FALSE, liveRiskScore |-> 20, safeHarbor |-> <<>>,
     dbSafeHarbor |-> <<>>]

\* Before the first load: empty cache, no run, no timer, no prompt so far.
FreshApp ==
    /\ interventionRows = <<>>
    /\ pendingShown = <<>>
    /\ predictionCache = <<>>
    /\ allocated = 0
    /\ ui = InitialUi
    /\ loads = <<>>
    /\ timers = <<>>
    /\ autoShown = <<>>
    /\ runs = <<>>

\* The collector as loaded and not yet started; nothing logged so far.
QuietJournal ==
    /\ lastAppState = "active"
    /\ listeners = 0
    /\ delivered = <<>>
    /\ eventRows = <<>>
    /\ logRows = <<>>
    /\ pendingEvents = <<>>

\* No unlock in the last hour, no urge log, no routine row, no check-in.
NoContext ==
    /\ unlockTimes = <<>>
    /\ lastUrgeLog = <<>>
    /\ routineDone = FALSE
    /\ lastCheckIn = <<>>

\* No screen_on row in the last 7 days.
NoUnlocks == [hour \in Hours |-> [total |-> 0, days |-> 0]]

\* No urge_sessions row and no logs row in the clock's hour.
NoHourUrges == [sessions |-> 0, intensity |-> 0, logs |-> 0]

\* The answers to the urge duration question.
UrgeDurations == {"5", "10", "20", "30"}

\* The answer given in the saves of the profile runs; the profile estimators
\* do not read the column.
SavedUrgeDuration == "20"

InitProfile ==
    /\ QuietJournal
    /\ tables \in {{}, {"user_profile"}}
    /\ handles = {"riskProfile"}
    /\ profileRows = <<>>
    /\ urgeDuration = ""
    /\ savePc = "idle"
    /\ now = 0
    /\ unlockStats = NoUnlocks
    /\ hourUrges = NoHourUrges
    /\ urgeEvents = <<>>
    /\ NoContext
    /\ FreshApp
    /\ lastCall = Idle

\* initRiskProfile: opens the handle of the riskProfile module.
InitRiskProfile ==
    /\ lastCall = Idle
    /\ handles' = handles \cup {"riskProfile"}
    /\ UNCHANGED <<store, lastCall>>

\* saveProfile, first statement: DROP TABLE IF EXISTS user_profile.
SaveProfileDrop ==
    /\ savePc = "idle"
    /\ lastCall = Idle
    /\ tables' = tables \ {"user_profile"}
    /\ profileRows' = <<>>
    /\ urgeDuration' = ""
    /\ savePc' = "dropped"
    /\ UNCHANGED <<journal, handles, now, logStore, context, gateStore, predictor, app,
                   lastCall>>

\* saveProfile, second statement: CREATE TABLE user_profile.
SaveProfileCreate ==
    /\ savePc = "dropped"
    /\ lastCall = Idle
    /\ tables' = tables \cup {"user_profile"}
    /\ savePc' = "created"
    /\ UNCHANGED <<journal, handles, profileRows, urgeDuration, now, logStore, context,
                   gateStore, predictor, app, lastCall>>

\* saveProfile, third statement: INSERT the answers of the form.
InsertProfile(data) ==
    /\ savePc = "created"
    /\ lastCall = Idle
    /\ profileRows' = Append(profileRows, data)
    /\ urgeDuration' = SavedUrgeDuration
    /\ savePc' = "idle"
    /\ UNCHANGED <<journal, tables, handles, now, logStore, context, gateStore,
                   predictor, app, lastCall>>

SaveProfileInsert == \E data \in Profiles : InsertProfile(data)

\* A call of calculate24HourProfile.
CallCalculate24HourProfile ==
    /\ lastCall = Idle
    /\ lastCall' = [op |-> "calculate24HourProfile", threw |-> FALSE,
                    value |-> calculate24HourProfile]
    /\ UNCHANGED <<handles, store>>

\* A call of getPeakDangerWindow, and the peakHours getCurrentRisk makes of it.
CallGetPeakDangerWindow ==
    /\ lastCall = Idle
    /\ \E profile \in {calculate24HourProfile}, userProfile \in {getUserProfile} :
         LET w == PeakWindow(profile, userProfile)
         IN  lastCall' = [op |-> "getPeakDangerWindow", threw |-> FALSE,
                          value |-> w,
                          peakHours |-> PeakHoursFrom(w.startHour, w.endHour)]
    /\ UNCHANGED <<handles, store>>

\* The caller takes the returned value.
Return ==
    /\ lastCall # Idle
    /\ lastCall' = Idle
    /\ UNCHANGED <<handles, store>>

NextProfile ==
    \/ SaveProfileDrop
    \/ SaveProfileCreate
    \/ SaveProfileInsert
    \/ CallCalculate24HourProfile
    \/ CallGetPeakDangerWindow
    \/ Return

SpecProfile == InitProfile /\ [][NextProfile]_vars


(***************************************************************************)
(* Claims about the baseline profile and the peak window                   *)
(***************************************************************************)
\* The threshold function of the data model: HIGH >= 70, MODERATE >= 40.
LevelOf(risk) ==
    CASE risk >= 70 -> "HIGH"
      [] risk >= 40 /\ risk < 70 -> "MODERATE"
      [] OTHER -> "LOW"

\* C5: every one of the 24 entries returned by calculate24HourProfile, for
\* every stored profile and for no profile, has baseRisk in [5,95] and the
\* riskLevel that the thresholds give its baseRisk.
C5_ProfileInRange ==
    lastCall.op = "calculate24HourProfile" =>
        /\ Len(lastCall.value) = 24
        /\ \A hour \in Hours :
             LET e == At(lastCall.value, hour)
             IN  /\ e.hour = hour
                 /\ e.baseRisk >= 5
                 /\ e.baseRisk <= 95
                 /\ e.riskLevel = LevelOf(e.baseRisk)

\* C5 witness: a curve computed from a stored profile in which the cap is
\* active at one hour and all three levels occur.
C5_Witness ==
    /\ lastCall.op = "calculate24HourProfile"
    /\ getUserProfile # <<>>
    /\ \E hour \in Hours :
         /\ RawRisk(getUserProfile[1], hour) > 95
         /\ At(lastCall.value, hour).baseRisk = 95
    /\ \A level \in {"LOW", "MODERATE", "HIGH"} :
         \E hour \in Hours : At(lastCall.value, hour).riskLevel = level

\* C8 as stated: startHour and endHour are hours, endHour is
\* (startHour + length - 1) mod 24 for the chosen length in 3..6, and the
\* hours from startHour to endHour inclusive, which getCurrentRisk lists as
\* peakHours, number that length.
C8_EndHourInclusive ==
    lastCall.op = "getPeakDangerWindow" =>
        /\ lastCall.value.startHour \in Hours
        /\ lastCall.value.endHour \in Hours
        /\ lastCall.value.length \in 3 .. 6
        /\ lastCall.value.endHour
             = (lastCall.value.startHour + lastCall.value.length - 1) % 24
        /\ Len(lastCall.peakHours) = lastCall.value.length

\* The hours of a named day segment, as the data model gives them.
InSegment(segment, hour) ==
    CASE segment = "morning" -> hour >= 6 /\ hour <= 11
      [] segment = "afternoon" -> hour >= 12 /\ hour <= 17
      [] segment = "evening" -> hour >= 18 /\ hour <= 21
      [] segment = "latenight" -> hour >= 22 \/ hour <= 1
      [] segment = "verylate" -> hour >= 2 /\ hour <= 5

\* The sum of the stated additions for one hour, clamped to [5,95].
StatedBaseRisk(profile, hour) ==
    LET windows == IF \E segment \in profile.riskHours : InSegment(segment, hour)
                   THEN 35 ELSE 0
        screen == CASE profile.screenTime = "6+ hours" -> 10
                    [] profile.screenTime = "4-6 hours" -> 5
                    [] OTHER -> 0
        bonus(trigger, hours, points) ==
            IF trigger \in profile.triggers /\ hour \in hours THEN points ELSE 0
        alone == IF profile.alonePattern \in {"always", "usually"} THEN 8 ELSE 0
        sum == 15 + windows + screen
               + bonus("loneliness", {20, 21, 22, 23, 0, 1, 2}, 15)
               + bonus("fatigue", {22, 23, 0, 1, 2, 3}, 15)
               + bonus("boredom", {12, 13, 14, 15, 20, 21, 22}, 10)
               + bonus("socialmedia", {19, 20, 21, 22, 23, 0}, 12)
               + alone
    IN  IF sum > 95 THEN 95 ELSE IF sum < 5 THEN 5 ELSE sum

\* The scenario of the late-night user with heavy screen time.
LateNightHeavyUser ==
    [screenTime |-> "6+ hours", riskHours |-> {"latenight"}, triggers |-> {},
     alonePattern |-> "rarely"]

\* C13: for every stored profile and every hour, the baseRisk returned by
\* calculate24HourProfile is 15, plus 35 when a selected risk window holds
\* the hour, plus the screen-time penalty, the trigger bonuses on their hour
\* sets and 8 for alone always or usually, clamped to [5,95]; the late-night
\* user with 6+ hours gets 60 MODERATE at 22, 23, 0, 1 and 25 LOW elsewhere.
C13_BaseRiskFormula ==
    (lastCall.op = "calculate24HourProfile" /\ getUserProfile # <<>>) =>
        \A profile \in {getUserProfile[1]} :
            /\ \A hour \in Hours :
                   At(lastCall.value, hour).baseRisk = StatedBaseRisk(profile, hour)
            /\ profile = LateNightHeavyUser =>
                   \A hour \in Hours :
                       LET entry == At(lastCall.value, hour)
                       IN  IF hour \in {22, 23, 0, 1}
                           THEN entry.baseRisk = 60 /\ entry.riskLevel = "MODERATE"
                           ELSE entry.baseRisk = 25 /\ entry.riskLevel = "LOW"

\* The curve of the late-night user with 6+ hours has been computed.
C13_Witness ==
    /\ lastCall.op = "calculate24HourProfile"
    /\ getUserProfile = <<LateNightHeavyUser>>
    /\ At(lastCall.value, 23).baseRisk = 60
    /\ At(lastCall.value, 2).baseRisk = 25

\* The 96 windows of the scan and their place in its order.
ScanPairs == (0 .. 23) \X (3 .. 6)
ScanIndex(pair) == 4 * pair[1] + pair[2]

\* The hours (start + i) mod 24, i < length, of a window.
WindowOf(pair) == {(pair[1] + i) % 24 : i \in 0 .. pair[2] - 1}

\* The first window of the scan order whose mean baseRisk is the greatest;
\* sums[pair] is the sum of baseRisk over the window.
FirstMaximal(sums) ==
    CHOOSE p \in ScanPairs :
        /\ \A q \in ScanPairs : sums[p] * q[2] >= sums[q] * p[2]
        /\ \A q \in ScanPairs :
               (sums[q] * p[2] >= sums[p] * q[2]) => ScanIndex(p) <= ScanIndex(q)

\* C19 as stated: for every hourly profile, getPeakDangerWindow returns the
\* window of the first (start, length) pair, starts 0..23 then lengths 3..6,
\* whose mean baseRisk over the hours (start + i) mod 24, i < length, is the
\* greatest of the 96 means, and avgRisk is that mean rounded; for the
\* late-night user with 6+ hours the window is {22, 23, 0, 1} and avgRisk 60.
C19_FirstMaximalWindow ==
    lastCall.op = "getPeakDangerWindow" =>
        \A curve \in {calculate24HourProfile} :
          \A sums \in {[p \in ScanPairs |->
                          LET Risk(i) == IF i < p[2]
                                         THEN At(curve, (p[1] + i) % 24).baseRisk
                                         ELSE 0
                          IN  Risk(0) + Risk(1) + Risk(2) + Risk(3) + Risk(4)
                              + Risk(5)]} :
            \A first \in {FirstMaximal(sums)} :
                /\ lastCall.value.startHour = first[1]
                /\ {lastCall.peakHours[i] : i \in 1 .. Len(lastCall.peakHours)}
                       = WindowOf(first)
                /\ 2 * first[2] * lastCall.value.avgRisk
                       <= 2 * sums[first] + first[2]
                /\ 2 * sums[first] + first[2]
                       < 2 * first[2] * (lastCall.value.avgRisk + 1)
                /\ getUserProfile = <<LateNightHeavyUser>> =>
                       /\ {lastCall.peakHours[i] :
                              i \in 1 .. Len(lastCall.peakHours)} = {22, 23, 0, 1}
                       /\ lastCall.value.avgRisk = 60

(***************************************************************************)
(* Frequency estimate and the two safe-harbor scanners                     *)
(***************************************************************************)
\* The mapping without the ceiling of its last branch.
riskScoreUncapped(total, days) ==
    IF total = 0 THEN 20
    ELSE IF total <= 2 * days THEN RoundDiv(20 * days + 5 * total, days)
    ELSE IF total <= 5 * days
        THEN RoundDiv(3000 * days + 667 * (total - 2 * days), 100 * days)
    ELSE IF total <= 9 * days
        THEN RoundDiv(50 * days + 5 * (total - 5 * days), days)
    ELSE RoundDiv(70 * days + 4 * (total - 9 * days), days)

\* The mapping of the average unlocks per day, total / days, to a score,
\* rounded as Math.round does. The query's AVG is over the days that have a
\* row, so days = 0 exactly when total = 0, and "avg_count || 0" is then 0.
riskScore(total, days) ==
    IF total = 0 THEN 20
    ELSE IF total <= 2 * days THEN RoundDiv(20 * days + 5 * total, days)
    ELSE IF total <= 5 * days
        THEN RoundDiv(3000 * days + 667 * (total - 2 * days), 100 * days)
    ELSE IF total <= 9 * days
        THEN RoundDiv(50 * days + 5 * (total - 5 * days), days)
    ELSE RoundDiv(70 * days + Min(4 * (total - 9 * days), 20 * days), days)

Clamp100(score) == Min(100, Max(0, score))

\* riskAnalysis getRiskForHour, called with the module's handle open: 20
\* when the query fails.
getRiskForHour(hour) ==
    IF "events" \notin tables THEN 20
    ELSE Clamp100(riskScore(unlockStats[hour].total, unlockStats[hour].days))

IsSafeInclusive(risk) == risk <= 40

\* The test both scanners apply to an hour's risk.
IsSafe(risk) == risk < 40

\* The time until the hour with no hour taken off for the minutes gone.
TimeUntilNoBorrow(offset, currentMinutes) ==
    IF 60 - currentMinutes = 60
    THEN [hoursUntil |-> offset, minutesUntil |-> 0]
    ELSE [hoursUntil |-> offset, minutesUntil |-> 60 - currentMinutes]

\* The time until the top of the hour that is offset hours ahead.
TimeUntil(offset, currentMinutes) ==
    IF 60 - currentMinutes = 60
    THEN [hoursUntil |-> offset, minutesUntil |-> 0]
    ELSE [hoursUntil |-> offset - 1, minutesUntil |-> 60 - currentMinutes]

ProfileHorizon == 24
FrequencyHorizon == 12

\* The loop of getNextSafeHarbor from offset on; <<>> is null.
RECURSIVE NextSafeHarborFrom(_, _, _, _)
NextSafeHarborFrom(profile, currentHour, currentMinutes, offset) ==
    IF offset > ProfileHorizon THEN <<>>
    ELSE LET checkHour == (currentHour + offset) % 24
         IN  IF IsSafe(At(profile, checkHour).baseRisk)
             THEN <<[safeHour |-> checkHour,
                     hoursUntil |-> TimeUntil(offset, currentMinutes).hoursUntil,
                     minutesUntil |-> TimeUntil(offset, currentMinutes).minutesUntil]>>
             ELSE NextSafeHarborFrom(profile, currentHour, currentMinutes, offset + 1)

getNextSafeHarbor ==
    NextSafeHarborFrom(calculate24HourProfile, getHours(now), getMinutes(now), 1)

\* The loop of getSafeHarborTime from offset on; timeRemaining keeps the two
\* numbers that the string "<hoursUntil>h <minutesUntil>m" is made of.
RECURSIVE SafeHarborTimeFrom(_, _, _)
SafeHarborTimeFrom(currentHour, currentMinutes, offset) ==
    IF offset > FrequencyHorizon THEN <<>>
    ELSE LET checkHour == (currentHour + offset) % 24
         IN  IF IsSafe(getRiskForHour(checkHour))
             THEN <<[safeHour |-> checkHour,
                     timeRemaining |-> TimeUntil(offset, currentMinutes)]>>
             ELSE SafeHarborTimeFrom(currentHour, currentMinutes, offset + 1)

getSafeHarborTime == SafeHarborTimeFrom(getHours(now), getMinutes(now), 1)

\* Stored histories: one busy block of hours, every hour of it with the same
\* number of unlocks over the same number of days.
BusyFrom == 0
MaxBusySpan == 14
BusyDays == 2
MinBusyTotal == 6
MaxBusyTotal == 8

BusyBlock(span, total) ==
    [hour \in Hours |->
        IF (hour - BusyFrom) % 24 < span
        THEN [total |-> total, days |-> BusyDays]
        ELSE [total |-> 0, days |-> 0]]

UnlockHistories ==
    {BusyBlock(span, total) : span \in {0, MaxBusySpan, 24},
                              total \in MinBusyTotal .. MaxBusyTotal}

\* Stored profiles of the scanner runs: every choice of risk windows.
HarborProfiles ==
    {data \in Profiles : /\ data.screenTime = "<2 hours"
                         /\ data.triggers = {"loneliness", "boredom"}
                         /\ data.alonePattern = "rarely"}

ClockMinutes == {0, 30}

InitHarbor ==
    /\ QuietJournal
    /\ tables = AllTables
    /\ handles = {"riskProfile"}
    /\ profileRows \in {<<>>} \cup {<<data>> : data \in HarborProfiles}
    /\ urgeDuration = IF profileRows = <<>> THEN "" ELSE SavedUrgeDuration
    /\ savePc = "idle"
    /\ hourUrges = NoHourUrges
    /\ urgeEvents = <<>>
    /\ NoContext
    /\ FreshApp
    /\ \E hour \in Hours, minute \in ClockMinutes :
           now = hour * HourMs + minute * MinuteMs
    /\ unlockStats \in UnlockHistories
    /\ lastCall = Idle

CallGetNextSafeHarbor ==
    /\ lastCall = Idle
    /\ lastCall' = [op |-> "getNextSafeHarbor", threw |-> FALSE,
                    value |-> getNextSafeHarbor]
    /\ UNCHANGED <<handles, store>>

CallGetSafeHarborTime ==
    /\ lastCall = Idle
    /\ lastCall' = [op |-> "getSafeHarborTime", threw |-> FALSE,
                    value |-> getSafeHarborTime]
    /\ handles' = handles \cup {"riskAnalysis"}
    /\ UNCHANGED store

NextHarbor ==
    \/ CallGetNextSafeHarbor
    \/ CallGetSafeHarborTime
    \/ Return

SpecHarbor == InitHarbor /\ [][NextHarbor]_vars

\* The offsets of a horizon at which the hourly risk r is under 40.
SafeOffsets(r(_), horizon) ==
    {offset \in 1 .. horizon : r((getHours(now) + offset) % 24) < 40}

FirstOffset(offsets) == CHOOSE o \in offsets : \A other \in offsets : o <= other

\* C9: each scanner returns null exactly when every hour of its horizon
\* (24 hours over the profile curve, 12 hours over the frequency estimate)
\* has risk >= 40, and otherwise returns the hour at the smallest offset
\* whose risk is under 40.
C9_ScannersFirstSafeHour ==
    /\ lastCall.op = "getNextSafeHarbor" =>
        \A profile \in {calculate24HourProfile} :
            LET offsets == SafeOffsets(LAMBDA h : At(profile, h).baseRisk, 24)
            IN  IF offsets = {} THEN lastCall.value = <<>>
                ELSE /\ lastCall.value # <<>>
                     /\ lastCall.value[1].safeHour
                            = (getHours(now) + FirstOffset(offsets)) % 24
    /\ lastCall.op = "getSafeHarborTime" =>
        LET offsets == SafeOffsets(getRiskForHour, 12)
        IN  IF offsets = {} THEN lastCall.value = <<>>
            ELSE /\ lastCall.value # <<>>
                 /\ lastCall.value[1].safeHour
                        = (getHours(now) + FirstOffset(offsets)) % 24

\* The frequency scanner has returned null over a history whose busy block
\* covers its whole horizon, although a safe hour lies beyond the horizon.
C9_Witness ==
    /\ lastCall.op = "getSafeHarborTime"
    /\ lastCall.value = <<>>
    /\ \E hour \in Hours : getRiskForHour(hour) < 40
    /\ \E hour \in Hours : getRiskForHour(hour) = 40

(***************************************************************************)
(* Live risk: the two hourly estimates, their blend, the urge spike and    *)
(* getCurrentRisk                                                          *)
(***************************************************************************)
\* The outcome of a call: a returned value, or an exception that left it.
Returned(op, value) == [op |-> op, threw |-> FALSE, value |-> value]
Threw(op) == [op |-> op, threw |-> TRUE]

\* riskAnalysis getRiskForCurrentHour (imported as getScreenRisk): the
\* function opens the handle itself; 20 when the query fails.
getScreenRisk ==
    IF "events" \notin tables THEN 20
    ELSE Clamp100(riskScore(unlockStats[getHours(now)].total,
                            unlockStats[getHours(now)].days))

\* Math.round(20 + frequencyRisk + avgIntensity * 0.5), avgIntensity being
\* intensity / sessions, or 0 without sessions.
totalRisk(sessions, intensity, logs) ==
    LET frequencyRisk == Min(50, (sessions + logs) * 10)
    IN  IF sessions = 0 THEN 20 + frequencyRisk
        ELSE RoundDiv(2 * sessions * (20 + frequencyRisk) + intensity,
                      2 * sessions)

\* riskProfile getRiskForCurrentHour (imported as getProfileRisk), called
\* with the module's handle open: the profile curve when a query fails or
\* the hour has no row.
getProfileRisk ==
    IF /\ "urge_sessions" \in tables
       /\ "logs" \in tables
       /\ (hourUrges.sessions > 0 \/ hourUrges.logs > 0)
    THEN Clamp100(totalRisk(hourUrges.sessions, hourUrges.intensity,
                            hourUrges.logs))
    ELSE At(calculate24HourProfile, getHours(now)).baseRisk

\* A blend that folds the score already on the screen into the new one.
combinedRiskCompounded(screenRisk, profileRisk) ==
    RoundDiv(6 * screenRisk + 4 * profileRisk + 10 * ui.liveRiskScore, 20)

\* The blend of refreshRiskData.
combinedRisk(screenRisk, profileRisk) ==
    RoundDiv(6 * screenRisk + 4 * profileRisk, 10)

getBaselineRisk == At(calculate24HourProfile, getHours(now)).baseRisk

\* parseInt of an answer to the urge duration question.
parseInt(text) ==
    CASE text = "5" -> 5
      [] text = "10" -> 10
      [] text = "20" -> 20
      [] text = "30" -> 30

\* urgeDurationMinutes of getActiveUrgeSpike: 20 when the query fails or the
\* value is missing.
urgeDurationMinutes ==
    IF "user_profile" \in tables /\ urgeDuration # ""
    THEN parseInt(urgeDuration) ELSE 20

\* COUNT(*) of the events rows of the given types with timestamp > since.
CountEvents(types, since) ==
    Cardinality({i \in 1 .. Len(urgeEvents) :
                    /\ urgeEvents[i].type \in types
                    /\ urgeEvents[i].timestamp > since})

SpikeUncapped(urgeCount) == urgeCount * 15

\* The spike of urgeCount urges in the window.
SpikeOf(urgeCount) == Min(urgeCount * 15, 30)

\* getActiveUrgeSpike: its count query is outside any try.
getActiveUrgeSpike ==
    IF "riskAnalysis" \notin handles
    THEN Returned("getActiveUrgeSpike", 0)
    ELSE IF "events" \notin tables THEN Threw("getActiveUrgeSpike")
    ELSE Returned("getActiveUrgeSpike",
             SpikeOf(CountEvents({"URGE_LOGGED", "LAPSE_LOGGED"},
                                 now - urgeDurationMinutes * MinuteMs)))

SpikeWindowMinutes == 5

\* The zone and level getCurrentRisk gives a percentage.
ZoneOf(percentage) ==
    IF percentage >= 70 THEN [zone |-> "STORM_WARNING", level |-> "HIGH"]
    ELSE IF percentage >= 40 THEN [zone |-> "STORM_WATCH", level |-> "MODERATE"]
    ELSE [zone |-> "CLEAR_SKIES", level |-> "LOW"]

\* getCurrentRisk with lapse events counted as fresh urges too.
CurrentRiskAnyEvent(profile, userProfile) ==
    IF "riskAnalysis" \in handles /\ "events" \notin tables
    THEN Threw("getCurrentRisk")
    ELSE
      LET baseline == At(profile, getHours(now)).baseRisk
          urgeSpikeActive ==
              /\ "riskAnalysis" \in handles
              /\ CountEvents({"URGE_LOGGED", "LAPSE_LOGGED"},
                             now - SpikeWindowMinutes * MinuteMs) > 0
          percentage ==
              IF urgeSpikeActive THEN Min(95, baseline + 15) ELSE baseline
          peakWindow == PeakWindow(profile, userProfile)
      IN  Returned("getCurrentRisk",
              [percentage |-> percentage,
               level |-> ZoneOf(percentage).level,
               zone |-> ZoneOf(percentage).zone,
               urgeSpikeActive |-> urgeSpikeActive,
               peakHours |-> PeakHoursFrom(peakWindow.startHour,
                                           peakWindow.endHour)])

\* getCurrentRisk over the curve and the stored profile it has read: its
\* count query is outside any try.
CurrentRisk(profile, userProfile) ==
    IF "riskAnalysis" \in handles /\ "events" \notin tables
    THEN Threw("getCurrentRisk")
    ELSE
      LET baseline == At(profile, getHours(now)).baseRisk
          urgeSpikeActive ==
              /\ "riskAnalysis" \in handles
              /\ CountEvents({"URGE_LOGGED"},
                             now - SpikeWindowMinutes * MinuteMs) > 0
          percentage ==
              IF urgeSpikeActive THEN Min(95, baseline + 15) ELSE baseline
          peakWindow == PeakWindow(profile, userProfile)
      IN  Returned("getCurrentRisk",
              [percentage |-> percentage,
               level |-> ZoneOf(percentage).level,
               zone |-> ZoneOf(percentage).zone,
               urgeSpikeActive |-> urgeSpikeActive,
               peakHours |-> PeakHoursFrom(peakWindow.startHour,
                                           peakWindow.endHour)])

\* Stored profiles of the live runs: the least and the most risky answers.
LiveProfiles ==
    {[screenTime |-> "<2 hours", riskHours |-> {}, triggers |-> {},
      alonePattern |-> "rarely"],
     [screenTime |-> "6+ hours", riskHours |-> RiskWindowNames,
      triggers |-> TriggerNames, alonePattern |-> "always"]}

ClockHours == {3, 22}

\* A week after the epoch, so that every time read is positive.
LiveBase == 7 * 24 * HourMs

\* Unlock histories of the live runs: the same number of unlocks, on one
\* day, in every hour.
MaxDayUnlocks == 15

DayUnlocks ==
    {[hour \in Hours |-> [total |-> total, days |-> IF total = 0 THEN 0 ELSE 1]] :
        total \in 0 .. MaxDayUnlocks}

\* Urge histories of the clock's hour: the sessions all at the lowest or all
\* at the highest intensity of the slider.
MinIntensity == 1
MaxIntensity == 10
MaxHourSessions == 2
MaxHourLogs == 5

HourUrgeStats ==
    {[sessions |-> n, intensity |-> n * i, logs |-> l] :
        n \in 0 .. MaxHourSessions, i \in {MinIntensity, MaxIntensity},
        l \in 0 .. MaxHourLogs}

\* Urge and lapse events of the last half hour, logged before the clock's
\* hour began.
MaxUrgeEvents == 3
UrgeAges == {2, 7, 25}

EventRows(t) ==
    [type : {"URGE_LOGGED", "LAPSE_LOGGED"},
     timestamp : {t - age * MinuteMs : age \in UrgeAges}]

\* The logs row that logEvent wrote along with the newest URGE_LOGGED event.
NewestUrge(events) ==
    LET urges == {i \in 1 .. Len(events) : events[i].type = "URGE_LOGGED"}
    IN  IF urges = {} THEN <<>>
        ELSE <<events[CHOOSE i \in urges : \A j \in urges : j <= i].timestamp>>

RecentEvents(t) ==
    {es \in UNION {[1 .. n -> EventRows(t)] : n \in 0 .. MaxUrgeEvents} :
        \A i \in 1 .. Len(es) - 1 : es[i].timestamp <= es[i + 1].timestamp}

InitLive ==
    /\ QuietJournal
    /\ tables = AllTables
    /\ handles = {"riskAnalysis", "interventions"}
    /\ savePc = "idle"
    /\ \E hour \in ClockHours : now = LiveBase + hour * HourMs
    /\ unlockTimes = <<>>
    /\ routineDone = FALSE
    /\ lastCheckIn = <<>>
    /\ FreshApp
    /\ lastCall = Idle
    /\ \/ /\ profileRows \in {<<>>} \cup {<<data>> : data \in LiveProfiles}
          /\ urgeDuration = IF profileRows = <<>> THEN "" ELSE SavedUrgeDuration
          /\ unlockStats \in DayUnlocks
          /\ hourUrges \in HourUrgeStats
          /\ urgeEvents = <<>>
          /\ lastUrgeLog = IF hourUrges.logs = 0 THEN <<>>
                           ELSE <<now - 24 * HourMs>>
       \/ /\ profileRows \in {<<>>} \cup {<<data>> : data \in LiveProfiles}
          /\ urgeDuration \in IF profileRows = <<>> THEN {""}
                              ELSE UrgeDurations \cup {""}
          /\ unlockStats = NoUnlocks
          /\ hourUrges = NoHourUrges
          /\ urgeEvents \in RecentEvents(now)
          /\ lastUrgeLog = NewestUrge(urgeEvents)

\* The data wipe of the settings screen: every table is dropped.
DeleteAllData ==
    /\ lastCall = Idle
    /\ tables # {}
    /\ tables' = {}
    /\ profileRows' = <<>>
    /\ urgeDuration' = ""
    /\ unlockStats' = NoUnlocks
    /\ hourUrges' = NoHourUrges
    /\ urgeEvents' = <<>>
    /\ unlockTimes' = <<>>
    /\ lastUrgeLog' = <<>>
    /\ routineDone' = FALSE
    /\ lastCheckIn' = <<>>
    /\ interventionRows' = <<>>
    /\ logRows' = <<>>
    /\ eventRows' = <<>>
    /\ UNCHANGED <<lastAppState, listeners, delivered, pendingEvents, handles,
                   savePc, now,
                   pendingShown, predictor, app, lastCall>>

CallGetScreenRisk ==
    /\ lastCall = Idle
    /\ lastCall' = Returned("getScreenRisk", getScreenRisk)
    /\ UNCHANGED <<handles, store>>

\* getProfileRisk once its handle is open (it opens it itself when needed:
\* InitRiskProfile).
CallGetProfileRisk ==
    /\ lastCall = Idle
    /\ "riskProfile" \in handles
    /\ lastCall' = Returned("getProfileRisk", getProfileRisk)
    /\ UNCHANGED <<handles, store>>

\* refreshRiskData after its two opening calls: the live score it sets.
CallRefreshRiskData ==
    /\ lastCall = Idle
    /\ "riskProfile" \in handles
    /\ lastCall' = Returned("refreshRiskData",
                            combinedRisk(getScreenRisk, getProfileRisk))
    /\ UNCHANGED <<handles, store>>

CallGetActiveUrgeSpike ==
    /\ lastCall = Idle
    /\ lastCall' = getActiveUrgeSpike
    /\ UNCHANGED <<handles, store>>

CallGetCurrentRisk ==
    /\ lastCall = Idle
    /\ \E profile \in {calculate24HourProfile}, userProfile \in {getUserProfile} :
         lastCall' = CurrentRisk(profile, userProfile)
    /\ UNCHANGED <<handles, store>>

NextLive ==
    \/ InitRiskProfile
    \/ DeleteAllData
    \/ CallGetScreenRisk
    \/ CallGetProfileRisk
    \/ CallRefreshRiskData
    \/ CallGetActiveUrgeSpike
    \/ CallGetCurrentRisk
    \/ Return

SpecLive == InitLive /\ [][NextLive]_vars

\* C6: every risk value lies in [0,100] (both hourly estimates, the blended
\* live score and the percentage of getCurrentRisk), and the urge spike
\* never exceeds 30.
C6_RiskValuesInRange ==
    /\ lastCall.op \in {"getScreenRisk", "getProfileRisk", "refreshRiskData"}
           => lastCall.value \in 0 .. 100
    /\ (lastCall.op = "getCurrentRisk" /\ ~lastCall.threw)
           => lastCall.value.percentage \in 0 .. 100
    /\ (lastCall.op = "getActiveUrgeSpike" /\ ~lastCall.threw)
           => lastCall.value \in 0 .. 30

\* The spike has been asked for with three urge or lapse events inside the
\* urge window, and is 30.
C6_Witness ==
    /\ lastCall.op = "getActiveUrgeSpike"
    /\ ~lastCall.threw
    /\ CountEvents({"URGE_LOGGED", "LAPSE_LOGGED"},
                   now - urgeDurationMinutes * MinuteMs) = 3
    /\ lastCall.value = 30

\* An URGE_LOGGED event is less than five minutes old.
FreshUrgeLogged ==
    \E i \in 1 .. Len(urgeEvents) :
        /\ urgeEvents[i].type = "URGE_LOGGED"
        /\ now - urgeEvents[i].timestamp < 5 * MinuteMs

C21_BlendOfBaseRisk ==
    lastCall.op = "refreshRiskData" =>
        \A curve \in {calculate24HourProfile} :
            lastCall.value
                = RoundDiv(6 * getScreenRisk
                           + 4 * At(curve, getHours(now)).baseRisk, 10)

\* C10 as stated: no core estimator lets an exception out; every call
\* returns a value.
C10_NoEstimatorThrows == lastCall # Idle => ~lastCall.threw

(***************************************************************************)
(* Logistic predictor (mlPredictor.ts)                                     *)
(***************************************************************************)
DayMs == 24 * HourMs

\* new Date().getDay(): the epoch fell on a Thursday.
getDay(t) == ((t \div DayMs) + 4) % 7

\* extractFeatures. hoursSinceLastUrge is kept in milliseconds (the source
\* divides them by 3600000), so 24 hours is 24 * HourMs.
extractFeatures ==
    LET hour == getHours(now)
        sinceLastUrge ==
            IF "logs" \in tables /\ lastUrgeLog # <<>>
            THEN now - lastUrgeLog[1] ELSE 24 * HourMs
        checkedIn == "check_ins" \in tables /\ lastCheckIn # <<>>
    IN  [hour |-> hour,
         dayOfWeek |-> getDay(now),
         screenUnlocksLastHour |->
             IF "events" \in tables
             THEN Cardinality({i \in 1 .. Len(unlockTimes) :
                                  unlockTimes[i] > now - HourMs})
             ELSE 0,
         hoursSinceLastUrge |-> sinceLastUrge,
         eveningRoutineDone |-> "evening_routine" \in tables /\ routineDone,
         isLateNight |-> hour >= 22 \/ hour <= 4,
         isRecentUrge |-> sinceLastUrge < 2 * HourMs,
         stressLevel |-> IF checkedIn THEN lastCheckIn[1].stress_level ELSE 1,
         lonelinessLevel |->
             IF checkedIn THEN lastCheckIn[1].loneliness_level ELSE 1]

\* A hash that leaves the number of unlocks out of account.
hashInputsBlindToUnlocks(features) ==
    <<"hour", features.hour, "dayOfWeek", features.dayOfWeek,
      "screenUnlocksLastHour", 0,
      "hoursSinceLastUrge", features.hoursSinceLastUrge,
      "eveningRoutineDone", features.eveningRoutineDone,
      "isLateNight", features.isLateNight,
      "isRecentUrge", features.isRecentUrge,
      "stressLevel", features.stressLevel,
      "lonelinessLevel", features.lonelinessLevel>>

\* hashInputs: JSON.stringify writes the keys in the order the object was
\* built with, each followed by its value.
hashInputs(features) ==
    <<"hour", features.hour, "dayOfWeek", features.dayOfWeek,
      "screenUnlocksLastHour", features.screenUnlocksLastHour,
      "hoursSinceLastUrge", features.hoursSinceLastUrge,
      "eveningRoutineDone", features.eveningRoutineDone,
      "isLateNight", features.isLateNight,
      "isRecentUrge", features.isRecentUrge,
      "stressLevel", features.stressLevel,
      "lonelinessLevel", features.lonelinessLevel>>

\* The weights, in hundredths.
MODEL_WEIGHTS ==
    [intercept |-> -250, hour |-> 8, dayOfWeek |-> 2,
     screenUnlocksLastHour |-> 15, recentUrgeBonus |-> -400,
     eveningRoutineDone |-> -80, isLateNight |-> 120, stressLevel |-> 80,
     lonelinessLevel |-> 60]

\* z, in hundredths.
Z100(features) ==
    MODEL_WEIGHTS.intercept
    + MODEL_WEIGHTS.hour * features.hour
    + MODEL_WEIGHTS.dayOfWeek * features.dayOfWeek
    + MODEL_WEIGHTS.screenUnlocksLastHour * features.screenUnlocksLastHour
    + MODEL_WEIGHTS.recentUrgeBonus * (IF features.isRecentUrge THEN 1 ELSE 0)
    + MODEL_WEIGHTS.eveningRoutineDone
          * (IF features.eveningRoutineDone THEN 1 ELSE 0)
    + MODEL_WEIGHTS.isLateNight * (IF features.isLateNight THEN 1 ELSE 0)
    + MODEL_WEIGHTS.stressLevel * features.stressLevel
    + MODEL_WEIGHTS.lonelinessLevel * features.lonelinessLevel

\* RoundingSteps[k] is the least z, in hundredths, at which
\* Math.round(100 / (1 + Math.exp(-z))) reaches k: the ceiling of
\* 100 * ln((k - 0.5) / (100.5 - k)). No step is within 0.00006 of a
\* hundredth, so z's floating-point error cannot move a value across one.
RoundingSteps ==
    <<-529, -418, -366, -331, -305, -284, -266, -251, -237, -225,
      -214, -204, -194, -185, -177, -169, -162, -155, -148, -141,
      -135, -129, -123, -118, -112, -107, -102, -96, -91, -87,
      -82, -77, -73, -68, -64, -59, -55, -51, -46, -42,
      -38, -34, -30, -26, -22, -18, -14, -10, -6, -2,
      3, 7, 11, 15, 19, 23, 27, 31, 35, 39,
      43, 47, 52, 56, 60, 65, 69, 74, 78, 83,
      88, 92, 97, 103, 108, 113, 119, 124, 130, 136,
      142, 149, 156, 163, 170, 178, 186, 195, 205, 215,
      226, 238, 252, 267, 285, 306, 332, 367, 419, 530>>

RoundedProbabilityOpen(z100) ==
    Max(1, Min(99, Cardinality({k \in 1 .. 100 : z100 >= RoundingSteps[k]})))

\* Math.round(probability * 100): the returned probability, in hundredths.
RoundedProbability(z100) ==
    Cardinality({k \in 1 .. 100 : z100 >= RoundingSteps[k]})

\* The least z, in hundredths, whose logistic value is not under 0.3, and
\* not under 0.7.
Logit30 == -84
Logit70 == 85

\* riskLevel, taken from the unrounded probability.
RiskLevelOfZ(z100) ==
    IF z100 < Logit30 THEN "LOW"
    ELSE IF z100 < Logit70 THEN "MODERATE" ELSE "HIGH"

determineConfidence(features) ==
    IF features.hoursSinceLastUrge < 2 * HourMs THEN "high"
    ELSE IF features.screenUnlocksLastHour > 10 THEN "high"
    ELSE IF features.hoursSinceLastUrge > 12 * HourMs THEN "low"
    ELSE "medium"

Factor(label, impact, severity) ==
    [label |-> label, impact |-> impact, severity |-> severity]

\* A sort that leaves the factors in the order of their pushes.
InsertUnordered(sorted, factor) == Append(sorted, factor)

\* factors.sort((a, b) => b.impact - a.impact): descending, equal impacts
\* keep their order.
RECURSIVE InsertByImpact(_, _)
InsertByImpact(sorted, factor) ==
    IF sorted = <<>> THEN <<factor>>
    ELSE IF sorted[1].impact >= factor.impact
         THEN <<sorted[1]>> \o InsertByImpact(Tail(sorted), factor)
         ELSE <<factor>> \o sorted

RECURSIVE SortByImpact(_)
SortByImpact(factors) ==
    IF factors = <<>> THEN <<>>
    ELSE InsertByImpact(SortByImpact(SubSeq(factors, 1, Len(factors) - 1)),
                        factors[Len(factors)])

generateReasoning(features) ==
    LET pushed ==
            (IF features.isLateNight
             THEN <<Factor("Late night hours", 45, "high")>> ELSE <<>>)
            \o (IF features.screenUnlocksLastHour > 5
                THEN IF features.screenUnlocksLastHour > 15
                     THEN <<Factor(<<"Digital restlessness",
                                     features.screenUnlocksLastHour>>, 35, "high")>>
                     ELSE <<Factor(<<"Digital restlessness",
                                     features.screenUnlocksLastHour>>, 20, "medium")>>
                ELSE <<>>)
            \o (IF features.stressLevel > 0
                THEN IF features.stressLevel >= 2
                     THEN <<Factor("High stress level", 32, "high")>>
                     ELSE <<Factor("Moderate stress", 16, "medium")>>
                ELSE <<>>)
            \o (IF features.lonelinessLevel > 0
                THEN IF features.lonelinessLevel >= 2
                     THEN <<Factor("Feeling lonely", 24, "medium")>>
                     ELSE <<Factor("Feeling disconnected", 12, "low")>>
                ELSE <<>>)
            \o (IF ~features.eveningRoutineDone /\ features.hour >= 20
                THEN <<Factor("Evening routine skipped", 15, "medium")>>
                ELSE <<>>)
            \o (IF features.eveningRoutineDone
                THEN <<Factor("Evening routine completed", 25, "protective")>>
                ELSE <<>>)
            \o (IF features.hoursSinceLastUrge < HourMs
                THEN <<Factor("Recent urge (refractory period)", 40, "protective")>>
                ELSE <<>>)
        hasProtective ==
            \E i \in 1 .. Len(pushed) : pushed[i].severity = "protective"
        framed ==
            IF hasProtective THEN pushed
            ELSE IF ~features.isLateNight
                 THEN Append(pushed, Factor("Stable circadian rhythm", 15, "protective"))
                 ELSE Append(pushed, Factor("Monitoring active", 10, "protective"))
        sorted == SortByImpact(framed)
        top == IF Len(sorted) > 5 THEN SubSeq(sorted, 1, 5) ELSE sorted
    IN  IF top = <<>> THEN <<Factor("Baseline activity", 5, "low")>> ELSE top

\* The PredictionResult that predictUrgeRisk builds from the features; id
\* tells the object from every other one.
BuildResult(features, id) ==
    [id |-> id,
     probability |-> RoundedProbability(Z100(features)),
     confidence |-> determineConfidence(features),
     riskLevel |-> RiskLevelOfZ(Z100(features)),
     factors |-> generateReasoning(features)]

CacheTtlMs == 300000

CacheFreshInclusive(age) == age <= CacheTtlMs

\* The age test of the cache check.
CacheFresh(age) == age < CacheTtlMs

\* The cache check answered by any fresh slot, whatever its hash.
predictFromAnyHash(features) ==
    LET currentHash == hashInputs(features)
        hit == /\ predictionCache # <<>>
               /\ CacheFresh(now - predictionCache[1].timestamp)
        result == BuildResult(features, allocated + 1)
    IN  IF hit
        THEN [hit |-> TRUE, result |-> predictionCache[1].result,
              cache |-> predictionCache, allocated |-> allocated]
        ELSE [hit |-> FALSE, result |-> result,
              cache |-> <<[result |-> result, inputHash |-> currentHash,
                           timestamp |-> now]>>,
              allocated |-> allocated + 1]

\* predictUrgeRisk from the return of extractFeatures on, which runs without
\* an await: whether the slot answers, the result that is returned, and the
\* slot afterwards.
predictFrom(features) ==
    LET currentHash == hashInputs(features)
        hit == /\ predictionCache # <<>>
               /\ predictionCache[1].inputHash = currentHash
               /\ CacheFresh(now - predictionCache[1].timestamp)
        result == BuildResult(features, allocated + 1)
    IN  IF hit
        THEN [hit |-> TRUE, result |-> predictionCache[1].result,
              cache |-> predictionCache, allocated |-> allocated]
        ELSE [hit |-> FALSE, result |-> result,
              cache |-> <<[result |-> result, inputHash |-> currentHash,
                           timestamp |-> now]>>,
              allocated |-> allocated + 1]

\* predictUrgeRisk in the current state, nothing happening while it reads.
predictUrgeRisk == predictFrom(extractFeatures)

(***************************************************************************)
(* The predictor over the feature space                                    *)
(***************************************************************************)
\* Days after the epoch that are a Sunday (getDay 0) and a Saturday (6).
FeatureDays == {3, 9}

\* Numbers of unlocks in the last hour: none, over 5, enough for a rounded
\* probability of 1, over 15.
FeatureUnlocks == {0, 6, 13, 16}

\* Ages of the newest urge log: under 1 hour, under 2, between, over 12.
FeatureUrgeAges == {30, 90, 360, 780}

\* Levels that a check-in stores.
MaxLevel == 2

CheckIns == [stress_level : 0 .. MaxLevel, loneliness_level : 0 .. MaxLevel]

MaxResults == 3

InitFeatures ==
    /\ QuietJournal
    /\ tables = AllTables
    /\ handles = {"riskProfile", "riskAnalysis", "interventions"}
    /\ profileRows = <<>>
    /\ urgeDuration = ""
    /\ savePc = "idle"
    /\ \E day \in FeatureDays, hour \in Hours : now = day * DayMs + hour * HourMs
    /\ unlockStats = NoUnlocks
    /\ hourUrges = NoHourUrges
    /\ urgeEvents = <<>>
    /\ \E n \in FeatureUnlocks : unlockTimes = [i \in 1 .. n |-> now - MinuteMs]
    /\ lastUrgeLog \in {<<>>} \cup {<<now - age * MinuteMs>> : age \in FeatureUrgeAges}
    /\ routineDone \in BOOLEAN
    /\ lastCheckIn \in {<<>>} \cup {<<row>> : row \in CheckIns}
    /\ FreshApp
    /\ lastCall = Idle

\* A call of predictUrgeRisk.
CallPredictUrgeRisk ==
    /\ lastCall = Idle
    /\ allocated < MaxResults
    /\ \E outcome \in {predictUrgeRisk} :
         /\ lastCall' = [op |-> "predictUrgeRisk", threw |-> FALSE,
                         value |-> outcome.result, hit |-> outcome.hit]
         /\ predictionCache' = outcome.cache
         /\ allocated' = outcome.allocated
    /\ UNCHANGED <<journal, tables, handles, profileRows, urgeDuration, savePc, now,
                   logStore, context, gateStore, app>>

\* An invalidation that ages the entry past its lifetime and keeps it.
InvalidateByAgeing ==
    /\ lastCall = Idle
    /\ predictionCache # <<>>
    /\ predictionCache' =
           <<[predictionCache[1] EXCEPT !.timestamp = now - CacheTtlMs]>>
    /\ UNCHANGED <<journal, tables, handles, profileRows, urgeDuration, savePc, now,
                   logStore, context, gateStore, allocated, app, lastCall>>

\* invalidatePredictionCache.
InvalidatePredictionCache ==
    /\ lastCall = Idle
    /\ predictionCache # <<>>
    /\ predictionCache' = <<>>
    /\ UNCHANGED <<journal, tables, handles, profileRows, urgeDuration, savePc, now,
                   logStore, context, gateStore, allocated, app, lastCall>>

NextFeatures ==
    \/ CallPredictUrgeRisk
    \/ InvalidatePredictionCache
    \/ Return

SpecFeatures == InitFeatures /\ [][NextFeatures]_vars

\* C30: for every feature tuple the factors that generateReasoning returns
\* are at least one and at most 5, in order of impact, largest first and
\* never increasing; a protective entry is always pushed before the cut, so
\* the list is never empty there and 'Baseline activity' is never returned.
C30_FactorsOrderedAndBounded ==
    lastCall.op = "predictUrgeRisk" =>
        \A factors \in {lastCall.value.factors} :
            /\ Len(factors) >= 1
            /\ Len(factors) <= 5
            /\ \A i \in 1 .. Len(factors) - 1 :
                   factors[i].impact >= factors[i + 1].impact
            /\ \A i \in 1 .. Len(factors) :
                   factors[i].label # "Baseline activity"

\* Six entries were pushed, the synthesized protective one among them, and
\* the cut to 5 removed it.
C30_Witness ==
    /\ lastCall.op = "predictUrgeRisk"
    /\ Len(lastCall.value.factors) = 5
    /\ \A i \in 1 .. 5 : lastCall.value.factors[i].severity # "protective"

\* The fields of a result that the features determine.
Determined(result) ==
    [probability |-> result.probability, confidence |-> result.confidence,
     riskLevel |-> result.riskLevel, factors |-> result.factors]

\* C7 as stated: the returned probability is strictly between 0 and 1 (in
\* hundredths: between 1 and 99) and the result is a function of the
\* features.
C7_ProbabilityStrictlyInside ==
    lastCall.op = "predictUrgeRisk" =>
        /\ lastCall.value.probability > 0
        /\ lastCall.value.probability < 100
        /\ Determined(lastCall.value) = Determined(BuildResult(extractFeatures, 0))

\* C7 amended: the returned probability is the logistic value rounded to two
\* decimals, so it lies in the closed interval [0,1]; it is 0 exactly when z
\* is under the first rounding step (about -5.29) and 1 exactly from the
\* last one (about 5.30) on; and probability, confidence, riskLevel and
\* factors are a function of the feature tuple, whether the call computed
\* them or took them from the cache.
C7_RoundedProbabilityClosed ==
    lastCall.op = "predictUrgeRisk" =>
        LET z100 == Z100(extractFeatures)
        IN  /\ lastCall.value.probability \in 0 .. 100
            /\ lastCall.value.probability = 0 <=> z100 < RoundingSteps[1]
            /\ lastCall.value.probability = 100 <=> z100 >= RoundingSteps[100]
            /\ Determined(lastCall.value)
                   = Determined(BuildResult(extractFeatures, 0))

\* A second result object has been computed after an invalidation, for
\* features whose rounded probability is 0.
C7_Witness ==
    /\ lastCall.op = "predictUrgeRisk"
    /\ ~lastCall.hit
    /\ lastCall.value.id = 2
    /\ lastCall.value.probability = 0

\* C16 as stated: for every feature tuple, the factors list of the returned
\* result, sorted by impact and cut to its top 5, has at least one entry of
\* severity 'protective'.
C16_ProtectiveFactorKept ==
    lastCall.op = "predictUrgeRisk" =>
        \E i \in 1 .. Len(lastCall.value.factors) :
            lastCall.value.factors[i].severity = "protective"

\* C23 as stated: in every returned PredictionResult riskLevel classifies
\* the returned probability: LOW under 0.3, HIGH from 0.7, else MODERATE.
C23_LevelOfReturnedProbability ==
    lastCall.op = "predictUrgeRisk" =>
        lastCall.value.riskLevel
            = (IF lastCall.value.probability < 30 THEN "LOW"
               ELSE IF lastCall.value.probability >= 70 THEN "HIGH"
               ELSE "MODERATE")

(***************************************************************************)
(* The predictor's cache while the clock runs and the loggers write        *)
(***************************************************************************)
\* 10:00 on the fourth day after the epoch.
PredictStart == 3 * DayMs + 10 * HourMs

MaxMinutes == 6
MaxUnlockEvents == 1
MaxUrgeLogs == 2

InitPredict ==
    /\ QuietJournal
    /\ tables = AllTables
    /\ handles = {"riskProfile", "riskAnalysis", "interventions"}
    /\ profileRows = <<>>
    /\ urgeDuration = ""
    /\ savePc = "idle"
    /\ now = PredictStart
    /\ unlockStats = NoUnlocks
    /\ hourUrges = NoHourUrges
    /\ urgeEvents = <<>>
    /\ NoContext
    /\ FreshApp
    /\ lastCall = Idle

\* A minute passes.
Tick ==
    /\ lastCall = Idle
    /\ now < PredictStart + MaxMinutes * MinuteMs
    /\ now' = now + MinuteMs
    /\ UNCHANGED <<journal, tables, handles, profileRows, urgeDuration, savePc, logStore,
                   context, gateStore, predictor, app, lastCall>>

\* handleAppStateChange, the app becoming active: a screen_on row.
Unlock ==
    /\ lastCall = Idle
    /\ "events" \in tables
    /\ Len(unlockTimes) < MaxUnlockEvents
    /\ unlockTimes' = Append(unlockTimes, now)
    /\ unlockStats' =
           [unlockStats EXCEPT ![getHours(now)] =
               [total |-> @.total + 1, days |-> 1]]
    /\ UNCHANGED <<journal, tables, handles, profileRows, urgeDuration, savePc, now,
                   hourUrges, urgeEvents, lastUrgeLog, context, gateStore,
                   predictor, app, lastCall>>

\* logEvent('urge'): a logs row, an events row, and the prompt is opened.
\* No statement of it touches the predictor's cache.
LogUrge ==
    /\ lastCall = Idle
    /\ {"logs", "events"} \subseteq tables
    /\ hourUrges.logs < MaxUrgeLogs
    /\ lastUrgeLog' = <<now>>
    /\ hourUrges' = [hourUrges EXCEPT !.logs = @ + 1]
    /\ urgeEvents' = Append(urgeEvents, [type |-> "URGE_LOGGED", timestamp |-> now])
    /\ ui' = [ui EXCEPT !.showIntervention = TRUE]
    /\ lastCall' = [op |-> "logEvent", threw |-> FALSE, type |-> "urge"]
    /\ UNCHANGED <<journal, tables, handles, profileRows, urgeDuration, savePc, now,
                   unlockStats, unlockTimes, context, gateStore, predictor,
                   loads, timers, autoShown, runs>>

\* saveRoutine: today's evening_routine row is replaced.
SaveRoutine ==
    /\ lastCall = Idle
    /\ "evening_routine" \in tables
    /\ \E fullyCompleted \in BOOLEAN :
         /\ routineDone # fullyCompleted
         /\ routineDone' = fullyCompleted
    /\ UNCHANGED <<journal, tables, handles, profileRows, urgeDuration, savePc, now,
                   logStore, lastCheckIn, gateStore, predictor, app, lastCall>>

NextPredict ==
    \/ Tick
    \/ Unlock
    \/ LogUrge
    \/ SaveRoutine
    \/ CallPredictUrgeRisk
    \/ Return

SpecPredict == InitPredict /\ [][NextPredict]_vars

\* C3: a call returns the cached object and leaves the slot alone exactly
\* when the slot is filled, its hash equals the hash of the features of this
\* call and its age is under 5 minutes; otherwise it builds a new object and
\* overwrites the slot with it. One slot: after A, B, the slot holds B and a
\* call with A builds anew.
C3_CacheHitExactly ==
    [][(lastCall = Idle /\ lastCall'.op = "predictUrgeRisk") =>
        LET currentHash == hashInputs(extractFeatures)
            answers == /\ predictionCache # <<>>
                       /\ predictionCache[1].inputHash = currentHash
                       /\ now - predictionCache[1].timestamp < 5 * MinuteMs
        IN  IF answers
            THEN /\ lastCall'.value = predictionCache[1].result
                 /\ predictionCache' = predictionCache
            ELSE /\ lastCall'.value.id > allocated
                 /\ Determined(lastCall'.value)
                        = Determined(BuildResult(extractFeatures, 0))
                 /\ predictionCache' =
                        <<[result |-> lastCall'.value, inputHash |-> currentHash,
                           timestamp |-> now]>>]_vars

\* Within 5 minutes of the start a third object has been built for the
\* features of the start, the slot having held another tuple in between.
C3_Witness ==
    /\ lastCall.op = "predictUrgeRisk"
    /\ ~lastCall.hit
    /\ lastCall.value.id = 3
    /\ now < PredictStart + 5 * MinuteMs
    /\ unlockTimes = <<>> /\ lastUrgeLog = <<>> /\ ~routineDone

\* C4 as stated: logging an urge empties the cache at once, and no call that
\* follows the log is answered from an entry cached before it.
C4_InvalidatedByUrgeLog ==
    /\ (lastCall.op = "logEvent" /\ lastCall.type = "urge")
           => predictionCache = <<>>
    /\ (lastCall.op = "predictUrgeRisk" /\ lastCall.hit /\ lastUrgeLog # <<>>)
           => predictionCache[1].timestamp >= lastUrgeLog[1]

(***************************************************************************)
(* The intervention gate: loadRiskData runs, their timers, the prompt      *)
(***************************************************************************)
GateThreshold == 70
GateWindowMs == 30 * MinuteMs
TimerDelayMs == 500

\* The COUNT(*) query of shouldTriggerIntervention, with the bound that the
\* call computed before it awaited.
RecentShown(thirtyMinsAgo) ==
    Cardinality({i \in 1 .. Len(interventionRows) :
                    interventionRows[i] > thirtyMinsAgo})

\* The answer of the query: an exception when the table is missing.
GateAnswer(currentRisk, thirtyMinsAgo) ==
    IF "interventions" \notin tables
    THEN [op |-> "shouldTriggerIntervention", threw |-> TRUE,
          currentRisk |-> currentRisk, thirtyMinsAgo |-> thirtyMinsAgo]
    ELSE [op |-> "shouldTriggerIntervention", threw |-> FALSE,
          currentRisk |-> currentRisk, thirtyMinsAgo |-> thirtyMinsAgo,
          value |-> RecentShown(thirtyMinsAgo) = 0]

\* 22:00 on the fourth day after the epoch.
GateStart == 3 * DayMs + 22 * HourMs

\* Rows left by an earlier session: none, one of 10 minutes ago, one of
\* exactly 30 minutes ago.
EarlierRows == {<<>>, <<GateStart - 10 * MinuteMs>>, <<GateStart - GateWindowMs>>}

MaxLoads == 2
MaxPrompts == 2

InitGate ==
    /\ QuietJournal
    /\ tables = AllTables
    /\ handles = {"riskProfile", "riskAnalysis"}
    /\ profileRows \in {<<>>} \cup {<<data>> : data \in LiveProfiles}
    /\ urgeDuration = IF profileRows = <<>> THEN "" ELSE SavedUrgeDuration
    /\ savePc = "idle"
    /\ now = GateStart
    /\ unlockStats = NoUnlocks
    /\ hourUrges = NoHourUrges
    /\ urgeEvents = <<>>
    /\ NoContext
    /\ interventionRows \in EarlierRows
    /\ pendingShown = <<>>
    /\ predictionCache = <<>>
    /\ allocated = 0
    /\ ui = InitialUi
    /\ loads = <<>>
    /\ timers = <<>>
    /\ autoShown = <<>>
    /\ runs = <<>>
    /\ lastCall = Idle

\* initInterventions, awaited by initApp: the handle and the table.
InitInterventions ==
    /\ lastCall = Idle
    /\ "interventions" \notin handles
    /\ handles' = handles \cup {"interventions"}
    /\ tables' = tables \cup {"interventions"}
    /\ UNCHANGED <<journal, profileRows, urgeDuration, savePc, now, logStore, context,
                   gateStore, predictor, app, lastCall>>

\* loadRiskData up to the gate's query: getCurrentRisk, predictUrgeRisk,
\* setRisk, setMlPrediction and, at 70 or more, the call of
\* shouldTriggerIntervention. With the gate's handle not open the call
\* answers true at once and the timer is set; otherwise the run waits for
\* the query. An exception of getCurrentRisk ends the run in its catch.
\* logEvent('lapse') shows the lapse support modal once its run has ended.
LoadRiskDataStart(lapse) ==
    \E profile \in {calculate24HourProfile}, userProfile \in {getUserProfile},
       outcome \in {predictUrgeRisk} :
      \E riskLevel \in {CurrentRisk(profile, userProfile)} :
          /\ outcome.allocated <= MaxResults
          /\ IF riskLevel.threw
             THEN /\ ui' = [ui EXCEPT !.showLapseSupport = @ \/ lapse]
                  /\ UNCHANGED <<predictor, loads, timers, autoShown, runs, lastCall>>
             ELSE /\ predictionCache' = outcome.cache
                  /\ allocated' = outcome.allocated
                  /\ UNCHANGED <<autoShown, runs>>
                  /\ IF riskLevel.value.percentage < GateThreshold
                     THEN /\ ui' = [ui EXCEPT !.risk = <<riskLevel.value>>,
                                              !.mlPrediction = <<outcome.result>>,
                                              !.showLapseSupport = @ \/ lapse]
                          /\ UNCHANGED <<loads, timers, lastCall>>
                     ELSE /\ ui' = [ui EXCEPT !.risk = <<riskLevel.value>>,
                                              !.mlPrediction = <<outcome.result>>,
                                              !.showLapseSupport =
                                                  @ \/ (lapse /\ "interventions" \notin handles)]
                          /\ IF "interventions" \notin handles
                             THEN /\ timers' = Append(timers, now + TimerDelayMs)
                                  /\ lastCall' =
                                         [op |-> "shouldTriggerIntervention",
                                          threw |-> FALSE,
                                          currentRisk |-> riskLevel.value.percentage,
                                          thirtyMinsAgo |-> now - GateWindowMs,
                                          value |-> TRUE]
                                  /\ loads' = loads
                             ELSE /\ loads' = Append(loads,
                                         [currentRisk |-> riskLevel.value.percentage,
                                          thirtyMinsAgo |-> now - GateWindowMs,
                                          lapse |-> lapse])
                                  /\ UNCHANGED <<timers, lastCall>>

\* The load that initApp awaits after initInterventions, and the hourly one.
LoadRiskData ==
    /\ lastCall = Idle
    /\ "interventions" \in handles
    /\ Len(loads) + Len(timers) < MaxLoads
    /\ Len(autoShown) < MaxPrompts
    /\ LoadRiskDataStart(FALSE)
    /\ UNCHANGED <<journal, tables, handles, profileRows, urgeDuration, savePc, now,
                   logStore, context, gateStore>>

MaxLapseLogs == 1

\* logEvent('lapse'): a logs row, an events row, then loadRiskData, then the
\* lapse support modal.
LogLapse ==
    /\ lastCall = Idle
    /\ {"logs", "events"} \subseteq tables
    /\ Len(urgeEvents) < MaxLapseLogs
    /\ Len(loads) + Len(timers) < MaxLoads
    /\ Len(autoShown) < MaxPrompts
    /\ urgeEvents' = Append(urgeEvents, [type |-> "LAPSE_LOGGED", timestamp |-> now])
    /\ LoadRiskDataStart(TRUE)
    /\ UNCHANGED <<journal, tables, handles, profileRows, urgeDuration, savePc, now,
                   unlockStats, hourUrges, unlockTimes, lastUrgeLog, context,
                   gateStore>>

\* The query of a waiting run is answered; on true the 500 ms timer is set.
LoadRiskDataGate ==
    /\ lastCall = Idle
    /\ \E i \in 1 .. Len(loads) :
         LET load == loads[i]
             answer == GateAnswer(load.currentRisk, load.thirtyMinsAgo)
         IN  /\ lastCall' = answer
             /\ loads' = SubSeq(loads, 1, i - 1) \o SubSeq(loads, i + 1, Len(loads))
             /\ timers' = IF ~answer.threw /\ answer.value
                          THEN Append(timers, now + TimerDelayMs) ELSE timers
             /\ ui' = [ui EXCEPT !.showLapseSupport =
                                     @ \/ load.lapse]
    /\ UNCHANGED <<journal, tables, handles, profileRows, urgeDuration, savePc, now,
                   logStore, context, gateStore, predictor, autoShown, runs>>

\* A due timer runs setShowIntervention(true). When that makes the modal
\* visible, its effect calls logInterventionShown, whose INSERT is pending.
TimerFire ==
    /\ lastCall = Idle
    /\ \E i \in 1 .. Len(timers) :
         /\ timers[i] <= now
         /\ timers' = SubSeq(timers, 1, i - 1) \o SubSeq(timers, i + 1, Len(timers))
    /\ ui' = [ui EXCEPT !.showIntervention = TRUE]
    /\ IF ui.showIntervention
       THEN UNCHANGED <<journal, autoShown, pendingShown>>
       ELSE /\ autoShown' = Append(autoShown, now)
            /\ pendingShown' =
                   IF "interventions" \in handles
                   THEN Append(pendingShown, now) ELSE pendingShown
    /\ UNCHANGED <<journal, tables, handles, profileRows, urgeDuration, savePc, now,
                   logStore, context, interventionRows, predictor, loads,
                   runs, lastCall>>

\* The INSERT of logInterventionShown lands (or fails, the table missing).
ShownInsertLands ==
    /\ lastCall = Idle
    /\ pendingShown # <<>>
    /\ pendingShown' = Tail(pendingShown)
    /\ interventionRows' =
           IF "interventions" \in tables
           THEN Append(interventionRows, Head(pendingShown))
           ELSE interventionRows
    /\ UNCHANGED <<journal, tables, handles, profileRows, urgeDuration, savePc, now,
                   logStore, context, predictor, app, lastCall>>

\* onClose of the modal.
CloseModal ==
    /\ lastCall = Idle
    /\ ui.showIntervention
    /\ ui' = [ui EXCEPT !.showIntervention = FALSE]
    /\ UNCHANGED <<journal, tables, handles, profileRows, urgeDuration, savePc, now,
                   logStore, context, gateStore, predictor, loads, timers,
                   autoShown, runs, lastCall>>

MaxShortWaits == 2
MaxLongWaits == 1

\* Time passes, by the timer's delay or by the gate's window, never beyond
\* the due time of a pending timer.
Advance ==
    /\ lastCall = Idle
    /\ \E delta \in {TimerDelayMs, GateWindowMs} :
         /\ delta = TimerDelayMs =>
                (now - GateStart) % GateWindowMs < MaxShortWaits * TimerDelayMs
         /\ delta = GateWindowMs =>
                (now - GateStart) \div GateWindowMs < MaxLongWaits
         /\ \A i \in 1 .. Len(timers) : now + delta <= timers[i]
         /\ now' = now + delta
    /\ UNCHANGED <<journal, tables, handles, profileRows, urgeDuration, savePc, logStore,
                   context, gateStore, predictor, app, lastCall>>

NextGate ==
    \/ InitInterventions
    \/ LoadRiskData
    \/ LogLapse
    \/ LoadRiskDataGate
    \/ TimerFire
    \/ ShownInsertLands
    \/ CloseModal
    \/ Advance
    \/ Return

SpecGate == InitGate /\ [][NextGate]_vars

\* C1 as stated: whatever the interleaving of loads, timers, the modal's
\* log write and the user closing the modal, any two auto-triggered prompts
\* are at least 30 minutes apart.
C1_OneAutoPromptPerWindow ==
    \A i, j \in 1 .. Len(autoShown) :
        i < j => autoShown[j] - autoShown[i] >= GateWindowMs

\* C2 as stated: the gate answers false when the risk is under 70 or a shown
\* row lies within the 30 minutes before the call, and true otherwise.
C2_GateTruthTable ==
    (lastCall.op = "shouldTriggerIntervention" /\ ~lastCall.threw) =>
        lastCall.value =
            (/\ lastCall.currentRisk >= 70
             /\ \A i \in 1 .. Len(interventionRows) :
                    interventionRows[i] <= lastCall.thirtyMinsAgo)

(***************************************************************************)
(* Overlapping refreshes: refreshRiskData and loadRiskData, read by read   *)
(***************************************************************************)
\* What a read can see: the rows of the store and the clock.
Seen == <<tables, profileRows, urgeDuration, logStore, context,
          interventionRows, now>>

\* A call that has just started; overlapped tells that another call was
\* still running then.
NewRun(kind, pc) ==
    [kind |-> kind, pc |-> pc, seen |-> {}, results |-> <<>>,
     overlapped |-> \E i \in 1 .. Len(runs) : runs[i].pc # "done"]

\* A run after its next await has resolved with value.
Resumed(run, pc, value) ==
    [run EXCEPT !.pc = pc, !.seen = @ \cup {Seen},
                !.results = Append(@, value)]

MaxRuns == 2

\* 22:00 on the fourth day after the epoch.
OverlapStart == 3 * DayMs + 22 * HourMs

\* Unlock histories of the overlapping runs: none, or 6 on one day in
\* every hour.
OverlapUnlocks ==
    {[hour \in Hours |-> [total |-> total, days |-> IF total = 0 THEN 0 ELSE 1]] :
        total \in {0, 6}}

InitOverlap ==
    /\ QuietJournal
    /\ tables = AllTables
    /\ handles = {"riskProfile", "riskAnalysis", "interventions"}
    /\ profileRows \in {<<>>} \cup {<<data>> : data \in LiveProfiles}
    /\ urgeDuration = IF profileRows = <<>> THEN "" ELSE SavedUrgeDuration
    /\ savePc = "idle"
    /\ now = OverlapStart
    /\ unlockStats \in OverlapUnlocks
    /\ hourUrges = NoHourUrges
    /\ urgeEvents = <<>>
    /\ NoContext
    /\ FreshApp
    /\ lastCall = Idle

\* The focus effect starts refreshRiskData: initRiskProfile and
\* initRiskAnalysis open the two handles.
RefreshStart ==
    /\ lastCall = Idle
    /\ Len(runs) < MaxRuns
    /\ runs' = Append(runs, NewRun("refresh", "getProfileRisk"))
    /\ handles' = handles \cup {"riskProfile", "riskAnalysis"}
    /\ UNCHANGED <<journal, tables, profileRows, urgeDuration, savePc, now, logStore,
                   context, gateStore, predictor, ui, loads, timers, autoShown,
                   lastCall>>

\* One await of a refreshRiskData run resolves, and the run goes on to its
\* next await: the two estimates, setLiveRiskScore with their blend, the two
\* safe-harbor scans with their setters. calculateJITAIMetrics, which ends
\* the run, calls no estimator.
RefreshStep ==
    /\ lastCall = Idle
    /\ \E i \in 1 .. Len(runs) :
         LET run == runs[i]
         IN  /\ run.kind = "refresh"
             /\ run.pc # "done"
             /\ CASE run.pc = "getProfileRisk" ->
                       /\ runs' = [runs EXCEPT ![i] =
                              Resumed(run, "getScreenRisk", getProfileRisk)]
                       /\ ui' = ui
                  [] run.pc = "getScreenRisk" ->
                       \E blend \in {combinedRisk(getScreenRisk, run.results[1])} :
                         /\ runs' = [runs EXCEPT ![i] =
                                Resumed(run, "getNextSafeHarbor", blend)]
                         /\ ui' = [ui EXCEPT !.liveRiskScore = blend]
                  [] run.pc = "getNextSafeHarbor" ->
                       \E nextSafe \in {getNextSafeHarbor} :
                         /\ runs' = [runs EXCEPT ![i] =
                                Resumed(run, "getSafeHarborTime", nextSafe)]
                         /\ ui' = [ui EXCEPT !.safeHarbor = nextSafe]
                  [] run.pc = "getSafeHarborTime" ->
                       \E dbSafe \in {getSafeHarborTime} :
                         /\ runs' = [runs EXCEPT ![i] =
                                Resumed(run, "done", dbSafe)]
                         /\ ui' = [ui EXCEPT !.dbSafeHarbor = dbSafe]
    /\ UNCHANGED <<journal, tables, handles, profileRows, urgeDuration, savePc, now,
                   logStore, context, gateStore, predictor, loads, timers,
                   autoShown, lastCall>>

\* The hourly timer starts loadRiskData.
LoadStart ==
    /\ lastCall = Idle
    /\ Len(runs) < MaxRuns
    /\ runs' = Append(runs, NewRun("load", "getBaselineRisk"))
    /\ UNCHANGED <<journal, tables, handles, profileRows, urgeDuration, savePc, now,
                   logStore, context, gateStore, predictor, ui, loads, timers,
                   autoShown, lastCall>>

\* The percentage getCurrentRisk makes of the baseline and the spike check.
PercentageOf(baseline, urgeSpikeActive) ==
    IF urgeSpikeActive THEN Min(95, baseline + 15) ELSE baseline

\* One await of a loadRiskData run resolves: the three reads of
\* getCurrentRisk, predictUrgeRisk with setRisk and setMlPrediction, and at
\* 70 or more the gate's query with the 500 ms timer. An exception of the
\* count query ends the run in the catch of loadRiskData.
LoadStep ==
    /\ lastCall = Idle
    /\ \E i \in 1 .. Len(runs) :
         LET run == runs[i]
         IN  /\ run.kind = "load"
             /\ run.pc # "done"
             /\ CASE run.pc = "getBaselineRisk" ->
                       /\ runs' = [runs EXCEPT ![i] =
                              Resumed(run, "recentUrges", getBaselineRisk)]
                       /\ UNCHANGED <<journal, predictor, ui, timers>>
                  [] run.pc = "recentUrges" ->
                       /\ runs' = [runs EXCEPT ![i] =
                              IF "riskAnalysis" \in handles /\ "events" \notin tables
                              THEN Resumed(run, "done", "threw")
                              ELSE Resumed(run, "getPeakDangerWindow",
                                       /\ "riskAnalysis" \in handles
                                       /\ CountEvents({"URGE_LOGGED"},
                                              now - SpikeWindowMinutes * MinuteMs) > 0)]
                       /\ UNCHANGED <<journal, predictor, ui, timers>>
                  [] run.pc = "getPeakDangerWindow" ->
                       \E profile \in {calculate24HourProfile},
                          userProfile \in {getUserProfile} :
                         \E peakWindow \in {PeakWindow(profile, userProfile)} :
                           /\ runs' = [runs EXCEPT ![i] =
                                  Resumed(run, "predictUrgeRisk",
                                      PeakHoursFrom(peakWindow.startHour,
                                                    peakWindow.endHour))]
                           /\ UNCHANGED <<journal, predictor, ui, timers>>
                  [] run.pc = "predictUrgeRisk" ->
                       \E outcome \in {predictUrgeRisk},
                          percentage \in {PercentageOf(run.results[1], run.results[2])} :
                         /\ outcome.allocated <= MaxResults
                         /\ predictionCache' = outcome.cache
                         /\ allocated' = outcome.allocated
                         /\ ui' = [ui EXCEPT
                                !.risk = <<[percentage |-> percentage,
                                            level |-> ZoneOf(percentage).level,
                                            zone |-> ZoneOf(percentage).zone,
                                            urgeSpikeActive |-> run.results[2],
                                            peakHours |-> run.results[3]]>>,
                                !.mlPrediction = <<outcome.result>>]
                         /\ IF percentage < GateThreshold
                            THEN /\ runs' = [runs EXCEPT ![i].pc = "done"]
                                 /\ timers' = timers
                            ELSE IF "interventions" \notin handles
                            THEN /\ runs' = [runs EXCEPT ![i] =
                                        [run EXCEPT !.pc = "done",
                                                    !.results = Append(@, TRUE)]]
                                 /\ timers' = Append(timers, now + TimerDelayMs)
                            ELSE /\ runs' = [runs EXCEPT ![i].pc =
                                                "shouldTriggerIntervention"]
                                 /\ timers' = timers
                  [] run.pc = "shouldTriggerIntervention" ->
                       \E answer \in {GateAnswer(
                                         PercentageOf(run.results[1], run.results[2]),
                                         now - GateWindowMs)} :
                         /\ runs' = [runs EXCEPT ![i] =
                                Resumed(run, "done",
                                    IF answer.threw THEN "threw" ELSE answer.value)]
                         /\ timers' = IF ~answer.threw /\ answer.value
                                      THEN Append(timers, now + TimerDelayMs)
                                      ELSE timers
                         /\ UNCHANGED <<journal, predictor, ui>>
    /\ UNCHANGED <<journal, tables, handles, profileRows, urgeDuration, savePc, now,
                   logStore, context, gateStore, loads, autoShown, lastCall>>

NextOverlap ==
    \/ RefreshStart
    \/ RefreshStep
    \/ LoadStart
    \/ LoadStep
    \/ LogUrge
    \/ Return

SpecOverlap == InitOverlap /\ [][NextOverlap]_vars

\* Two finished runs of the same function whose reads all saw the same rows
\* and the same clock.
SameReads(i, j) ==
    /\ runs[i].kind = runs[j].kind
    /\ runs[i].pc = "done"
    /\ runs[j].pc = "done"
    /\ Cardinality(runs[i].seen \cup runs[j].seen) = 1

C22_GateConsumesLiveScore ==
    \A i, j \in 1 .. Len(runs) :
        (/\ runs[i].kind = "load" /\ runs[i].pc = "done"
         /\ runs[j].kind = "refresh" /\ runs[j].pc = "done"
         /\ Cardinality(runs[i].seen \cup runs[j].seen) = 1) =>
            /\ PercentageOf(runs[i].results[1], runs[i].results[2])
                   = runs[j].results[2]
            /\ Len(runs[i].results) > 3 <=> runs[j].results[2] >= 70

(***************************************************************************)
(* Re-onboarding while estimation calls come and go                        *)
(***************************************************************************)
InitReonboard ==
    /\ QuietJournal
    /\ tables = AllTables
    /\ handles = {"riskProfile", "riskAnalysis", "interventions"}
    /\ profileRows \in {<<>>} \cup {<<data>> : data \in LiveProfiles}
    /\ urgeDuration = IF profileRows = <<>> THEN "" ELSE SavedUrgeDuration
    /\ savePc = "idle"
    /\ now = OverlapStart
    /\ unlockStats = NoUnlocks
    /\ hourUrges = NoHourUrges
    /\ urgeEvents = <<>>
    /\ NoContext
    /\ FreshApp
    /\ lastCall = Idle

\* saveProfile's INSERT with the least or the most risky answers.
ReonboardInsert == \E data \in LiveProfiles : InsertProfile(data)

NextReonboard ==
    \/ SaveProfileDrop
    \/ SaveProfileCreate
    \/ ReonboardInsert
    \/ RefreshStart
    \/ RefreshStep
    \/ LoadStart
    \/ LoadStep

SpecReonboard == InitReonboard /\ [][NextReonboard]_vars

\* The latest snapshot: the row that the last completed saveProfile left.
LatestSnapshot ==
    IF "user_profile" \in tables /\ profileRows # <<>>
    THEN <<profileRows[Len(profileRows)]>> ELSE <<>>

\* C12: a finished estimation call all of whose reads saw the rows as they
\* are now, hence after the last saveProfile had completed, holds the values
\* of the latest snapshot: the baseline and the peak hours of getCurrentRisk,
\* the profile estimate and the safe harbor of refreshRiskData, whatever
\* earlier calls had read.
C12_LatestSnapshotOnly ==
    \A curve \in {ProfileCurve(LatestSnapshot)} :
      \A i \in 1 .. Len(runs) :
        (runs[i].pc = "done" /\ runs[i].seen = {Seen} /\ savePc = "idle") =>
            IF runs[i].kind = "load"
            THEN /\ runs[i].results[1] = At(curve, getHours(now)).baseRisk
                 /\ \E w \in {PeakWindow(curve, LatestSnapshot)} :
                        runs[i].results[3] = PeakHoursFrom(w.startHour, w.endHour)
            ELSE /\ runs[i].results[1] = At(curve, getHours(now)).baseRisk
                 /\ runs[i].results[3] =
                        NextSafeHarborFrom(curve, getHours(now), getMinutes(now), 1)

\* A getCurrentRisk has finished on the most risky profile, saved after an
\* earlier finished call had read another one.
C12_Witness ==
    /\ Len(runs) = 2
    /\ runs[1].pc = "done"
    /\ runs[2].pc = "done"
    /\ runs[2].kind = "load"
    /\ runs[2].seen = {Seen}
    /\ savePc = "idle"
    /\ \A snapshot \in runs[1].seen : snapshot[2] # profileRows
    /\ runs[2].results[1] = 95

(***************************************************************************)
(* The frequency estimate over fractional averages                         *)
(***************************************************************************)
\* Unlock histories of the frequency runs: in every hour the same number of
\* unlocks spread over the same number of days, each such day with at least
\* one, so that the query's AVG is total / days.
MaxUnlockDays == 4
MaxUnlockTotal == 16

AveragedUnlocks ==
    {[hour \in Hours |-> stat] :
        stat \in {s \in [total : 1 .. MaxUnlockTotal, days : 1 .. MaxUnlockDays] :
                      s.days <= s.total}}
    \cup {NoUnlocks}

InitFrequency ==
    /\ QuietJournal
    /\ tables = AllTables
    /\ handles = {}
    /\ profileRows = <<>>
    /\ urgeDuration = ""
    /\ savePc = "idle"
    /\ \E hour \in ClockHours : now = LiveBase + hour * HourMs
    /\ unlockStats \in AveragedUnlocks
    /\ hourUrges = NoHourUrges
    /\ urgeEvents = <<>>
    /\ NoContext
    /\ FreshApp
    /\ lastCall = Idle

\* getRiskForCurrentHour: it opens the module's handle when it is closed.
CallGetRiskForCurrentHour ==
    /\ lastCall = Idle
    /\ lastCall' = Returned("getRiskForCurrentHour", getScreenRisk)
    /\ handles' = handles \cup {"riskAnalysis"}
    /\ UNCHANGED store

\* One call of the helper from the scan of getSafeHarborTime, which has
\* opened the handle before its loop.
CallGetRiskForHour ==
    /\ lastCall = Idle
    /\ \E hour \in Hours :
         lastCall' = [op |-> "getRiskForHour", threw |-> FALSE, hour |-> hour,
                      value |-> getRiskForHour(hour)]
    /\ handles' = handles \cup {"riskAnalysis"}
    /\ UNCHANGED store

NextFrequency ==
    \/ CallGetRiskForCurrentHour
    \/ CallGetRiskForHour
    \/ Return

SpecFrequency == InitFrequency /\ [][NextFrequency]_vars

\* The integer nearest to num / den, the upper one of two equally near.
Nearest(num, den) ==
    CHOOSE k \in 0 .. 200 : 2 * den * k <= 2 * num + den
                            /\ 2 * num + den < 2 * den * (k + 1)

\* The stated curve at the average n = total / days, each branch as the
\* fraction of 100 * days that it is before rounding.
StatedFrequency(total, days) ==
    IF total = 0 THEN 20
    ELSE LET d == 100 * days
             n == 100 * total
         IN  CASE n <= 2 * d -> Nearest(20 * d + 5 * n, d)
               [] n > 2 * d /\ n <= 5 * d ->
                      Nearest(3000 * d + 667 * (n - 2 * d), 100 * d)
               [] n > 5 * d /\ n <= 9 * d -> Nearest(50 * d + 5 * (n - 5 * d), d)
               [] n > 9 * d ->
                      IF 4 * (n - 9 * d) < 20 * d
                      THEN Nearest(70 * d + 4 * (n - 9 * d), d)
                      ELSE 90

ReadUnlocks(oneHourAgo) ==
    IF "events" \in tables
    THEN Cardinality({i \in 1 .. Len(unlockTimes) : unlockTimes[i] > oneHourAgo})
    ELSE 0

ReadSinceLastUrge ==
    IF "logs" \in tables /\ lastUrgeLog # <<>>
    THEN now - lastUrgeLog[1] ELSE 24 * HourMs

ReadRoutine == "evening_routine" \in tables /\ routineDone

ReadCheckIn ==
    IF "check_ins" \in tables /\ lastCheckIn # <<>>
    THEN <<lastCheckIn[1].stress_level, lastCheckIn[1].loneliness_level>>
    ELSE <<1, 1>>

\* The object extractFeatures returns, from what its awaits resolved with:
\* the clock after the handle was opened, then the four query results.
FeaturesRead(reads) ==
    [hour |-> getHours(reads[1]),
     dayOfWeek |-> getDay(reads[1]),
     screenUnlocksLastHour |-> reads[2],
     hoursSinceLastUrge |-> reads[3],
     eveningRoutineDone |-> reads[4],
     isLateNight |-> getHours(reads[1]) >= 22 \/ getHours(reads[1]) <= 4,
     isRecentUrge |-> reads[3] < 2 * HourMs,
     stressLevel |-> reads[5][1],
     lonelinessLevel |-> reads[5][2]]

MaxPredictRuns == 3
MaxCacheMinutes == 1

InitCache ==
    /\ QuietJournal
    /\ tables = AllTables
    /\ handles = {"riskProfile", "riskAnalysis", "interventions"}
    /\ profileRows = <<>>
    /\ urgeDuration = ""
    /\ savePc = "idle"
    /\ now = PredictStart
    /\ unlockStats = NoUnlocks
    /\ hourUrges = NoHourUrges
    /\ urgeEvents = <<>>
    /\ NoContext
    /\ FreshApp
    /\ lastCall = Idle

\* A minute passes while calls are suspended.
CacheTick ==
    /\ lastCall = Idle
    /\ now < PredictStart + MaxCacheMinutes * MinuteMs
    /\ now' = now + MinuteMs
    /\ UNCHANGED <<journal, tables, handles, profileRows, urgeDuration, savePc, logStore,
                   context, gateStore, predictor, app, lastCall>>

\* predictUrgeRisk is called and suspends in extractFeatures, at
\* openDatabaseAsync.
PredictStartCall ==
    /\ lastCall = Idle
    /\ Len(runs) < MaxPredictRuns
    /\ runs' = Append(runs, NewRun("predict", "openDatabase"))
    /\ UNCHANGED <<journal, tables, handles, profileRows, urgeDuration, savePc, now,
                   logStore, context, gateStore, predictor, ui, loads, timers,
                   autoShown, lastCall>>

\* The calls that have returned.
Completed == {i \in 1 .. Len(runs) : runs[i].kind = "predict" /\ runs[i].pc = "done"}

\* One await of a suspended call resolves and the call runs to its next
\* await. After extractFeatures has returned, the rest of predictUrgeRisk
\* (hash, cache check, computation, cache write) is one step.
PredictStep ==
    /\ lastCall = Idle
    /\ \E i \in 1 .. Len(runs) :
         /\ runs[i].kind = "predict"
         /\ runs[i].pc # "done"
         /\ LET run == runs[i]
                Read(pc, value) ==
                    /\ runs' = [runs EXCEPT ![i].pc = pc,
                                            ![i].results = Append(@, value)]
                    /\ UNCHANGED <<journal, predictor>>
            IN  CASE run.pc = "openDatabase" -> Read("screenUnlocks", now)
                  [] run.pc = "screenUnlocks" ->
                         Read("lastUrge", ReadUnlocks(run.results[1] - HourMs))
                  [] run.pc = "lastUrge" -> Read("routineToday", ReadSinceLastUrge)
                  [] run.pc = "routineToday" -> Read("lastCheckIn", ReadRoutine)
                  [] run.pc = "lastCheckIn" -> Read("features", ReadCheckIn)
                  [] run.pc = "features" ->
                         /\ allocated < MaxResults
                         /\ \E outcome \in {predictFrom(FeaturesRead(run.results))} :
                              /\ predictionCache' = outcome.cache
                              /\ allocated' = outcome.allocated
                              /\ runs' = [runs EXCEPT
                                     ![i].pc = "done",
                                     ![i].results =
                                         Append(@, [result |-> outcome.result,
                                                    hit |-> outcome.hit,
                                                    order |-> Cardinality(Completed) + 1])]
    /\ UNCHANGED <<journal, tables, handles, profileRows, urgeDuration, savePc, now,
                   logStore, context, gateStore, ui, loads, timers, autoShown,
                   lastCall>>

NextCache ==
    \/ PredictStartCall
    \/ PredictStep
    \/ InvalidatePredictionCache
    \/ Unlock
    \/ CacheTick

SpecCache == InitCache /\ [][NextCache]_vars

\* What a completed call returned, and the hash of the features it read.
Outcome(run) == run.results[6]
OwnHash(run) == hashInputs(FeaturesRead(SubSeq(run.results, 1, 5)))

\* The slot holds the returned result and the feature hash of a call.
SlotHoldsPairOf(slot, run) ==
    /\ slot # <<>>
    /\ slot[1].result = Outcome(run).result
    /\ slot[1].inputHash = OwnHash(run)

\* C17: the cache slot is last-writer-wins under overlapping predictUrgeRisk
\* calls. In every interleaving of the awaits of the calls and of
\* invalidations, each call that completes leaves the slot holding its own
\* {result, inputHash} pair, answered from the slot only when the stored
\* hash equals the hash of its own features; nothing but a completing call
\* fills the slot; so once all calls have completed a filled slot holds the
\* pair of the call that completed last.
C17_LastWriterWins ==
    /\ []((Len(runs) >= 2 /\ Completed = 1 .. Len(runs) /\ predictionCache # <<>>)
            => \E i \in Completed :
                   /\ Outcome(runs[i]).order = Len(runs)
                   /\ SlotHoldsPairOf(predictionCache, runs[i]))
    /\ [][\A i \in 1 .. Len(runs) :
              (runs[i].pc = "features" /\ runs'[i].pc = "done") =>
                  /\ SlotHoldsPairOf(predictionCache', runs'[i])
                  /\ IF Outcome(runs'[i]).hit
                     THEN /\ predictionCache # <<>>
                          /\ predictionCache[1].inputHash = OwnHash(runs'[i])
                          /\ predictionCache' = predictionCache
                     ELSE /\ Outcome(runs'[i]).result.id = allocated + 1
                          /\ predictionCache'[1].timestamp = now]_vars
    /\ [][(predictionCache' # predictionCache /\ predictionCache' # <<>>)
              => \E i \in 1 .. Len(runs) :
                     runs[i].pc = "features" /\ runs'[i].pc = "done"]_vars

\* Two calls have overlapped with an invalidation and an unlock between
\* their reads: the call that started first completed last, computed its own
\* result from features unlike the other's, and the slot holds its pair.
C17_Witness ==
    /\ Len(runs) = 2
    /\ Completed = {1, 2}
    /\ runs[2].overlapped
    /\ Outcome(runs[1]).order = 2
    /\ ~Outcome(runs[1]).hit
    /\ ~Outcome(runs[2]).hit
    /\ OwnHash(runs[1]) # OwnHash(runs[2])
    /\ SlotHoldsPairOf(predictionCache, runs[1])
    /\ ~SlotHoldsPairOf(predictionCache, runs[2])

\* C18: invalidatePredictionCache clears the slot: right after it the slot
\* is empty, and the next predictUrgeRisk call that reads the slot computes
\* a new result and stores it, also when its features are those of the
\* entry that was cached and less than 5 minutes have passed.
C18_InvalidationForcesRecompute ==
    /\ [][InvalidatePredictionCache => predictionCache' = <<>>]_vars
    /\ [][\A i \in 1 .. Len(runs) :
              (predictionCache = <<>> /\ runs[i].pc = "features"
                                      /\ runs'[i].pc = "done") =>
                  LET features == FeaturesRead(SubSeq(runs[i].results, 1, 5))
                  IN  /\ ~Outcome(runs'[i]).hit
                      /\ Outcome(runs'[i]).result.id > allocated
                      /\ Determined(Outcome(runs'[i]).result)
                             = Determined(BuildResult(features, 0))
                      /\ predictionCache' =
                             <<[result |-> Outcome(runs'[i]).result,
                                inputHash |-> hashInputs(features),
                                timestamp |-> now]>>]_vars

\* Two calls, one after the other within the same minute and with the same
\* features, have each computed a result of their own: the slot was
\* invalidated between them. The slot holds the second result.
C18_Witness ==
    /\ Len(runs) = 2
    /\ Completed = {1, 2}
    /\ ~runs[2].overlapped
    /\ OwnHash(runs[1]) = OwnHash(runs[2])
    /\ runs[2].results[1] - runs[1].results[1] < 5 * MinuteMs
    /\ ~Outcome(runs[2]).hit
    /\ Outcome(runs[1]).result.id = 1
    /\ Outcome(runs[2]).result.id = 2
    /\ predictionCache # <<>>
    /\ predictionCache[1].result.id = 2

(***************************************************************************)
(* The two scanners at every minute of the hour                            *)
(***************************************************************************)
\* Every hour and minute of the first day; the stored profile is none or the
\* late-night user's, the unlock history any of the busy blocks.
InitClock ==
    /\ QuietJournal
    /\ tables = AllTables
    /\ handles = {"riskProfile"}
    /\ profileRows \in {<<>>, <<LateNightHeavyUser>>}
    /\ urgeDuration = IF profileRows = <<>> THEN "" ELSE SavedUrgeDuration
    /\ savePc = "idle"
    /\ \E hour \in Hours, minute \in 0 .. 59 :
           now = hour * HourMs + minute * MinuteMs
    /\ unlockStats \in UnlockHistories
    /\ hourUrges = NoHourUrges
    /\ urgeEvents = <<>>
    /\ NoContext
    /\ FreshApp
    /\ lastCall = Idle

NextClock ==
    \/ CallGetNextSafeHarbor
    \/ CallGetSafeHarborTime
    \/ Return

SpecClock == InitClock /\ [][NextClock]_vars

\* The stated time until a safe hour found at offset o, m minutes into the
\* hour, and what follows from it.
StatedTimeUntil(hoursUntil, minutesUntil, o, m) ==
    /\ IF m = 0 THEN minutesUntil = 0 /\ hoursUntil = o
       ELSE minutesUntil = 60 - m /\ hoursUntil = o - 1
    /\ hoursUntil * 60 + minutesUntil = o * 60 - m
    /\ minutesUntil \in 0 .. 59
    /\ hoursUntil >= 0

\* C20: for every minute m in 0..59 and every offset o at which a safe hour
\* is found, hoursUntil and minutesUntil of the result are o and 0 when
\* m = 0 and o - 1 and 60 - m otherwise, so that hoursUntil * 60 +
\* minutesUntil = o * 60 - m, minutesUntil is in 0..59 and hoursUntil >= 0.
C20_TimeUntilSafeHour ==
    /\ (lastCall.op = "getNextSafeHarbor" /\ lastCall.value # <<>>) =>
        \A profile \in {calculate24HourProfile} :
            LET o == FirstOffset(SafeOffsets(LAMBDA h : At(profile, h).baseRisk, 24))
            IN  StatedTimeUntil(lastCall.value[1].hoursUntil,
                                lastCall.value[1].minutesUntil, o, getMinutes(now))
    /\ (lastCall.op = "getSafeHarborTime" /\ lastCall.value # <<>>) =>
        LET o == FirstOffset(SafeOffsets(getRiskForHour, 12))
        IN  StatedTimeUntil(lastCall.value[1].timeRemaining.hoursUntil,
                            lastCall.value[1].timeRemaining.minutesUntil,
                            o, getMinutes(now))

\* At 21:59 the late-night user's next safe hour, 2:00, is 5 hours ahead:
\* the profile scanner has returned 4 hours and 1 minute.
C20_Witness ==
    /\ lastCall.op = "getNextSafeHarbor"
    /\ getHours(now) = 21
    /\ getMinutes(now) = 59
    /\ lastCall.value # <<>>
    /\ lastCall.value[1].safeHour = 2
    /\ lastCall.value[1].hoursUntil = 4
    /\ lastCall.value[1].minutesUntil = 1

(***************************************************************************)
(* The scanners after the data wipe                                        *)
(***************************************************************************)
NextOutage ==
    \/ DeleteAllData
    \/ CallGetNextSafeHarbor
    \/ CallGetSafeHarborTime
    \/ Return

SpecOutage == InitHarbor /\ [][NextOutage]_vars

\* C24 as stated: when the per-hour risk query fails for every hour of the
\* horizon (the events table is missing), getSafeHarborTime returns null and
\* reports no safe hour.
C24_NullOnStorageFailure ==
    (lastCall.op = "getSafeHarborTime" /\ "events" \notin tables)
        => lastCall.value = <<>>

(***************************************************************************)
(* The loops of the core, iteration by iteration                           *)
(***************************************************************************)
\* A loop that does not end is stopped after this many iterations.
MaxIterations == 30

\* The step of the expansion loop of getCurrentRisk with no wrap at 24.
NextHourNoWrap(h) == h + 1

\* The step of the expansion loop of getCurrentRisk.
NextHour(h) == (h + 1) % 24

\* Unlock histories of the loop runs: no busy hour, 14 busy hours, or all.
LoopHistories == {BusyBlock(span, MaxBusyTotal) : span \in {0, MaxBusySpan, 24}}

InitLoops ==
    /\ QuietJournal
    /\ tables = AllTables
    /\ handles = {"riskProfile", "riskAnalysis"}
    /\ profileRows \in {<<>>} \cup {<<data>> : data \in LiveProfiles}
    /\ urgeDuration = IF profileRows = <<>> THEN "" ELSE SavedUrgeDuration
    /\ savePc = "idle"
    /\ \E hour \in ClockHours : now = hour * HourMs
    /\ unlockStats \in LoopHistories
    /\ hourUrges = NoHourUrges
    /\ urgeEvents = <<>>
    /\ NoContext
    /\ FreshApp
    /\ lastCall = Idle

\* A loop is entered with the values of its variables in results.
EnterLoop(kind, variables) ==
    /\ lastCall = Idle
    /\ runs = <<>>
    /\ runs' = <<[NewRun(kind, "loop") EXCEPT !.results = variables]>>
    /\ UNCHANGED <<journal, tables, handles, profileRows, urgeDuration, savePc, now,
                   logStore, context, gateStore, predictor, ui, loads, timers,
                   autoShown, lastCall>>

\* getPeakDangerWindow reaches its loops: start, length, the best so far and
\* the number of iterations done.
PeakSearchStart ==
    EnterLoop("getPeakDangerWindow",
              <<0, 3, [maxSum |-> 0, maxLen |-> 1, maxStart |-> 0, maxEnd |-> 0], 0>>)

\* getNextSafeHarbor and getSafeHarborTime reach their loops: the offset and
\* the value to return.
HarborScanStart == EnterLoop("getNextSafeHarbor", <<1, <<>>>>)

FrequencyScanStart == EnterLoop("getSafeHarborTime", <<1, <<>>>>)

\* getCurrentRisk reaches its expansion loop with a peak window: h, endHour
\* and peakHours.
ExpandStart ==
    \E startHour \in Hours, endHour \in Hours :
        EnterLoop("getCurrentRisk", <<startHour, endHour, <<>>>>)

\* One iteration of the loop that is running, or its exit.
LoopStep ==
    /\ lastCall = Idle
    /\ Len(runs) = 1
    /\ runs[1].pc = "loop"
    /\ LET v == runs[1].results
           Goes(variables) == runs' = [runs EXCEPT ![1].results = variables]
           Ends(variables) == runs' = [runs EXCEPT ![1].results = variables,
                                                   ![1].pc = "done"]
       IN  CASE runs[1].kind = "getPeakDangerWindow" ->
                  IF v[1] >= 24 THEN Ends(v)
                  ELSE \E profile \in {calculate24HourProfile} :
                         LET sum == WindowSum(profile, v[1], v[2])
                             best == IF sum * v[3].maxLen > v[3].maxSum * v[2]
                                     THEN [maxSum |-> sum, maxLen |-> v[2],
                                           maxStart |-> v[1],
                                           maxEnd |-> WindowEnd(v[1], v[2])]
                                     ELSE v[3]
                         IN  IF v[2] + 1 <= 6
                             THEN Goes(<<v[1], v[2] + 1, best, v[4] + 1>>)
                             ELSE Goes(<<v[1] + 1, 3, best, v[4] + 1>>)
             [] runs[1].kind = "getNextSafeHarbor" ->
                  IF v[1] > ProfileHorizon THEN Ends(v)
                  ELSE \E profile \in {calculate24HourProfile} :
                         LET checkHour == (getHours(now) + v[1]) % 24
                         IN  IF IsSafe(At(profile, checkHour).baseRisk)
                             THEN Ends(<<v[1],
                                         <<[safeHour |-> checkHour,
                                            hoursUntil |->
                                                TimeUntil(v[1], getMinutes(now)).hoursUntil,
                                            minutesUntil |->
                                                TimeUntil(v[1], getMinutes(now)).minutesUntil]>>>>)
                             ELSE Goes(<<v[1] + 1, <<>>>>)
             [] runs[1].kind = "getSafeHarborTime" ->
                  IF v[1] > FrequencyHorizon THEN Ends(v)
                  ELSE LET checkHour == (getHours(now) + v[1]) % 24
                       IN  IF IsSafe(getRiskForHour(checkHour))
                           THEN Ends(<<v[1],
                                       <<[safeHour |-> checkHour,
                                          timeRemaining |->
                                              TimeUntil(v[1], getMinutes(now))]>>>>)
                           ELSE Goes(<<v[1] + 1, <<>>>>)
             [] runs[1].kind = "getCurrentRisk" ->
                  IF v[1] = v[2] THEN Ends(<<v[1], v[2], Append(v[3], v[2])>>)
                  ELSE /\ Len(v[3]) < MaxIterations
                       /\ Goes(<<NextHour(v[1]), v[2], Append(v[3], v[1])>>)
    /\ UNCHANGED <<journal, tables, handles, profileRows, urgeDuration, savePc, now,
                   logStore, context, gateStore, predictor, ui, loads, timers,
                   autoShown, lastCall>>

\* The operation returns and its caller takes the value.
LoopReturn ==
    /\ lastCall = Idle
    /\ Len(runs) = 1
    /\ runs[1].pc = "done"
    /\ runs' = <<>>
    /\ UNCHANGED <<journal, tables, handles, profileRows, urgeDuration, savePc, now,
                   logStore, context, gateStore, predictor, ui, loads, timers,
                   autoShown, lastCall>>

NextLoops ==
    \/ PeakSearchStart
    \/ HarborScanStart
    \/ FrequencyScanStart
    \/ ExpandStart
    \/ LoopStep
    \/ LoopReturn

SpecLoops == InitLoops /\ [][NextLoops]_vars

\* The loops are synchronous, or resume when their read has returned or
\* failed: an iteration that can be taken is taken.
SpecLoopsFair == SpecLoops /\ WF_vars(LoopStep)

\* C25: every core operation completes, its reads returning or failing: the
\* peak-window search, both safe-harbor scans, and the expansion of a peak
\* window into peakHours for every startHour and endHour in 0..23; they end
\* with the values the operations return.
C25_LoopsTerminate ==
    /\ (Len(runs) = 1) ~> (Len(runs) = 1 /\ runs[1].pc = "done")
    /\ [](\A i \in 1 .. Len(runs) :
            LET v == runs[i].results
            IN  /\ (runs[i].kind = "getCurrentRisk" /\ runs[i].pc = "done") =>
                       /\ Len(v[3]) \in 1 .. 24
                       /\ v[3][Len(v[3])] = v[2]
                /\ (runs[i].kind = "getPeakDangerWindow" /\ runs[i].pc = "done") =>
                       v[4] = 96
                /\ (runs[i].kind = "getNextSafeHarbor" /\ runs[i].pc = "done") =>
                       v[1] \in 1 .. 25
                /\ (runs[i].kind = "getSafeHarborTime" /\ runs[i].pc = "done") =>
                       v[1] \in 1 .. 13)

\* The expansion from hour 4 to hour 3 has ended with all 24 hours, after
\* wrapping at midnight.
C25_Witness ==
    /\ Len(runs) = 1
    /\ runs[1].kind = "getCurrentRisk"
    /\ runs[1].pc = "done"
    /\ runs[1].results[3][1] = 4
    /\ runs[1].results[2] = 3
    /\ Len(runs[1].results[3]) = 24

\* The feature tuple that a hash encodes: JSON.parse of the string.
FeaturesOfHash(hash) ==
    [hour |-> hash[2], dayOfWeek |-> hash[4], screenUnlocksLastHour |-> hash[6],
     hoursSinceLastUrge |-> hash[8], eveningRoutineDone |-> hash[10],
     isLateNight |-> hash[12], isRecentUrge |-> hash[14],
     stressLevel |-> hash[16], lonelinessLevel |-> hash[18]]

\* C26: the cache is transparent. In every reachable state the result of a
\* filled slot is the computation (probability, confidence, riskLevel,
\* factors) on the feature tuple its inputHash encodes, and under every
\* interleaving of predictUrgeRisk and invalidatePredictionCache calls each
\* returned value, hit or miss, is the computation on the features that the
\* same call extracted.
C26_CacheTransparent ==
    /\ predictionCache # <<>> =>
           Determined(predictionCache[1].result)
               = Determined(BuildResult(FeaturesOfHash(predictionCache[1].inputHash), 0))
    /\ \A i \in Completed :
           Determined(Outcome(runs[i]).result)
               = Determined(BuildResult(FeaturesRead(SubSeq(runs[i].results, 1, 5)), 0))

\* A call has been answered from the slot with a result another call built,
\* while a third call, which read one unlock more, built its own.
C26_Witness ==
    /\ Len(runs) = 3
    /\ Completed = {1, 2, 3}
    /\ \E i, j, k \in Completed :
           /\ Outcome(runs[i]).hit
           /\ ~Outcome(runs[j]).hit
           /\ Outcome(runs[i]).result = Outcome(runs[j]).result
           /\ ~Outcome(runs[k]).hit
           /\ runs[k].results[2] # runs[i].results[2]
           /\ Determined(Outcome(runs[k]).result) # Determined(Outcome(runs[i]).result)

(***************************************************************************)
(* Re-onboarding of a user who has a profile, while estimators read        *)
(***************************************************************************)
InitResave ==
    /\ QuietJournal
    /\ tables = AllTables
    /\ handles = {"riskProfile", "riskAnalysis", "interventions"}
    /\ profileRows \in {<<data>> : data \in LiveProfiles}
    /\ urgeDuration = SavedUrgeDuration
    /\ savePc = "idle"
    /\ now = OverlapStart
    /\ unlockStats = NoUnlocks
    /\ hourUrges = NoHourUrges
    /\ urgeEvents = <<>>
    /\ NoContext
    /\ FreshApp
    /\ lastCall = Idle

\* getPeakDangerWindow is called and suspends in calculate24HourProfile.
PeakStart ==
    /\ lastCall = Idle
    /\ Len(runs) < MaxRuns
    /\ runs' = Append(runs, NewRun("peak", "calculate24HourProfile"))
    /\ UNCHANGED <<journal, tables, handles, profileRows, urgeDuration, savePc, now,
                   logStore, context, gateStore, predictor, ui, loads, timers,
                   autoShown, lastCall>>

\* One of the two awaits of a getPeakDangerWindow run resolves: the curve,
\* then the stored profile, after which the scan runs and the call returns.
PeakStep ==
    /\ lastCall = Idle
    /\ \E i \in 1 .. Len(runs) :
         LET run == runs[i]
         IN  /\ run.kind = "peak"
             /\ run.pc # "done"
             /\ CASE run.pc = "calculate24HourProfile" ->
                       \E profile \in {calculate24HourProfile} :
                         runs' = [runs EXCEPT ![i] =
                                     Resumed(run, "getUserProfile", profile)]
                  [] run.pc = "getUserProfile" ->
                       \E userProfile \in {getUserProfile} :
                         \E window \in {PeakWindow(run.results[1], userProfile)} :
                           runs' = [runs EXCEPT ![i] = Resumed(run, "done", window)]
    /\ UNCHANGED <<journal, tables, handles, profileRows, urgeDuration, savePc, now,
                   logStore, context, gateStore, predictor, ui, loads, timers,
                   autoShown, lastCall>>

NextResave ==
    \/ SaveProfileDrop
    \/ SaveProfileCreate
    \/ ReonboardInsert
    \/ LoadStart
    \/ LoadStep
    \/ PeakStart
    \/ PeakStep

SpecResave == InitResave /\ [][NextResave]_vars

\* C27 as stated: profile reads are snapshot-consistent under a concurrent
\* re-onboarding. With a profile stored before and after, every value an
\* estimation call returns while saveProfile's DROP, CREATE and INSERT run
\* comes from one single profile, the old or the new one: never the flat
\* default of no profile, and never a curve of one profile paired with the
\* trigger set of the other.
C27_SnapshotConsistent ==
    \A curves \in {[data \in LiveProfiles |-> ProfileCurve(<<data>>)]} :
      \A i \in 1 .. Len(runs) :
        runs[i].pc = "done" =>
            \E data \in LiveProfiles :
                \E window \in {PeakWindow(curves[data], <<data>>)} :
                    IF runs[i].kind = "peak"
                    THEN /\ runs[i].results[1] = curves[data]
                         /\ runs[i].results[2] = window
                    ELSE /\ runs[i].results[1]
                                = At(curves[data], getHours(now)).baseRisk
                         /\ runs[i].results[3]
                                = PeakHoursFrom(window.startHour, window.endHour)

(***************************************************************************)
(* The passive collector: app-state notifications and their handlers       *)
(***************************************************************************)
AppStateStatus == {"active", "background", "inactive"}

MaxListeners == 2

MaxNotifications == 4

InitCollector ==
    /\ QuietJournal
    /\ tables = AllTables \ {"events"}
    /\ handles = {}
    /\ profileRows = <<>>
    /\ urgeDuration = ""
    /\ savePc = "idle"
    /\ now = OverlapStart
    /\ unlockStats = NoUnlocks
    /\ hourUrges = NoHourUrges
    /\ urgeEvents = <<>>
    /\ NoContext
    /\ FreshApp
    /\ lastCall = Idle

\* A screen_on row has been appended to events: what the readers of the last
\* hour and of the hour of day see of it.
ScreenOnCounted(event_type) ==
    IF event_type = "screen_on"
    THEN /\ unlockTimes' = Append(unlockTimes, now)
         /\ unlockStats' = [unlockStats EXCEPT ![getHours(now)] =
                               [total |-> @.total + 1, days |-> 1]]
    ELSE UNCHANGED <<unlockTimes, unlockStats>>

\* initDataCollection, as initApp calls it on every start of the home
\* screen and again when onboarding completes: the handle, the events table,
\* one more listener, and the row of the app's opening.
InitDataCollection ==
    /\ lastCall = Idle
    /\ listeners < MaxListeners
    /\ handles' = handles \cup {"dataCollection"}
    /\ tables' = tables \cup {"events"}
    /\ listeners' = listeners + 1
    /\ eventRows' = Append(eventRows, [event_type |-> "screen_on",
                                       timestamp |-> now,
                                       metadata |-> {"hour"}])
    /\ ScreenOnCounted("screen_on")
    /\ UNCHANGED <<profileRows, urgeDuration, savePc, now, hourUrges,
                   urgeEvents, lastUrgeLog, context, gateStore, predictor, app,
                   lastAppState, delivered, logRows, pendingEvents, lastCall>>

\* The row that handleAppStateChange decides to insert, "" for none: its two
\* tests, both evaluated before its first await.
RowFor(nextAppState) ==
    IF nextAppState = "active" /\ lastAppState # "active" THEN "screen_on"
    ELSE IF nextAppState # "active" /\ lastAppState = "active" THEN "screen_off"
    ELSE ""

\* AppState emits 'change' with a state that differs from the one before:
\* every registered listener runs up to its first await. A handler with no
\* row to insert has no await and assigns lastAppState at once; one with a
\* row suspends in runAsync, lastAppState still unassigned, so that the
\* listeners of one notification all decide alike.
Notify(nextAppState) ==
    /\ lastCall = Idle
    /\ "dataCollection" \in handles
    /\ listeners >= 1
    /\ Len(delivered) < MaxNotifications
    /\ nextAppState # (IF delivered = <<>> THEN "active"
                       ELSE delivered[Len(delivered)])
    /\ delivered' = Append(delivered, nextAppState)
    /\ IF RowFor(nextAppState) = ""
       THEN /\ lastAppState' = nextAppState
            /\ runs' = runs
       ELSE /\ lastAppState' = lastAppState
            /\ runs' = runs \o [k \in 1 .. listeners |->
                                   [kind |-> "handleAppStateChange",
                                    pc |-> "runAsync",
                                    nextAppState |-> nextAppState,
                                    event_type |-> RowFor(nextAppState),
                                    timestamp |-> now]]
    /\ UNCHANGED <<tables, handles, profileRows, urgeDuration, savePc, now,
                   logStore, context, gateStore, predictor, ui, loads, timers,
                   autoShown, listeners, eventRows, logRows, pendingEvents,
                   lastCall>>

AppStateChange == \E nextAppState \in AppStateStatus : Notify(nextAppState)

\* The INSERT of the handler that has waited longest lands (the statements
\* of one connection run in the order of their calls) and the handler goes
\* on to its last statement. A failed INSERT rejects the handler before it.
HandlerResume ==
    /\ lastCall = Idle
    /\ runs # <<>>
    /\ Head(runs).kind = "handleAppStateChange"
    /\ runs' = Tail(runs)
    /\ IF "events" \in tables
       THEN /\ eventRows' = Append(eventRows,
                                   [event_type |-> Head(runs).event_type,
                                    timestamp |-> Head(runs).timestamp,
                                    metadata |-> {"hour", "dayOfWeek"}])
            /\ ScreenOnCounted(Head(runs).event_type)
            /\ lastAppState' = Head(runs).nextAppState
       ELSE UNCHANGED <<eventRows, unlockTimes, unlockStats, lastAppState>>
    /\ UNCHANGED <<tables, handles, profileRows, urgeDuration, savePc, now,
                   hourUrges, urgeEvents, lastUrgeLog, context, gateStore,
                   predictor, ui, loads, timers, autoShown, listeners,
                   delivered, logRows, pendingEvents, lastCall>>

NextCollector ==
    \/ InitDataCollection
    \/ AppStateChange
    \/ HandlerResume

SpecCollector == InitCollector /\ [][NextCollector]_vars

\* The rows of one type that handlers appended (the row of the app's opening
\* carries no dayOfWeek).
HandlerRows(event_type) ==
    {i \in 1 .. Len(eventRows) :
        /\ eventRows[i].event_type = event_type
        /\ eventRows[i].metadata = {"hour", "dayOfWeek"}}

\* The notifications that changed the app's state between active and not.
Transitions(toActive) ==
    LET states == <<"active">> \o delivered
    IN  {i \in 1 .. Len(delivered) :
            /\ (states[i + 1] = "active") = toActive
            /\ (states[i] = "active") # toActive}

\* C28 as stated: the passive logger tracks the app state faithfully under
\* overlapping callbacks. Once every handler has finished, there is exactly
\* one screen_on row per notified change from non-active to active, exactly
\* one screen_off row per change from active to non-active, and lastAppState
\* is the state of the last notification; also when a notification arrived
\* while a handler awaited its insert and when initDataCollection ran twice.
C28_FaithfulLog ==
    (listeners >= 1 /\ runs = <<>>) =>
        /\ Cardinality(HandlerRows("screen_on")) = Cardinality(Transitions(TRUE))
        /\ Cardinality(HandlerRows("screen_off")) = Cardinality(Transitions(FALSE))
        /\ delivered # <<>> => lastAppState = delivered[Len(delivered)]

(***************************************************************************)
(* logEvent: the logs row and the events row of one user action            *)
(***************************************************************************)
LogTypes == {"urge", "lapse", "safe"}

\* index.tsx 297-299.
EventTypeOf(type) ==
    IF type = "urge" THEN "URGE_LOGGED"
    ELSE IF type = "lapse" THEN "LAPSE_LOGGED"
    ELSE "SAFETY_CHECK_IN"

MaxLogRows == 2

MaxLogMinutes == 1

\* The home screen is mounted and its db state is set; initApp may not have
\* run yet: after a first install or after the data wipe no table exists.
InitLogs ==
    /\ QuietJournal
    /\ tables \in {{}, AllTables}
    /\ handles = {"riskProfile", "riskAnalysis", "interventions"}
    /\ profileRows = <<>>
    /\ urgeDuration = ""
    /\ savePc = "idle"
    /\ now = OverlapStart
    /\ unlockStats = NoUnlocks
    /\ hourUrges = NoHourUrges
    /\ urgeEvents = <<>>
    /\ NoContext
    /\ FreshApp
    /\ lastCall = Idle

\* initApp up to its call of initDataCollection: the logs table and the
\* urge_sessions table are created.
InitAppTables ==
    /\ lastCall = Idle
    /\ ~ ({"logs", "urge_sessions"} \subseteq tables)
    /\ tables' = tables \cup {"logs", "urge_sessions"}
    /\ UNCHANGED <<handles, profileRows, urgeDuration, savePc, now, logStore,
                   context, gateStore, predictor, app, journal, lastCall>>

\* initApp's next await: initDataCollection creates the events table.
InitAppCollector ==
    /\ {"logs", "urge_sessions"} \subseteq tables
    /\ InitDataCollection

LogTick ==
    /\ lastCall = Idle
    /\ now < OverlapStart + MaxLogMinutes * MinuteMs
    /\ now' = now + MinuteMs
    /\ UNCHANGED <<tables, handles, profileRows, urgeDuration, savePc,
                   logStore, context, gateStore, predictor, app, journal,
                   lastCall>>

\* logEvent(type) up to the landing of its first INSERT: the logs row. With
\* no logs table the INSERT throws into the catch and the call has changed
\* nothing.
LogEvent(type) ==
    /\ lastCall = Idle
    /\ "logs" \in tables
    /\ Len(logRows) < MaxLogRows
    /\ logRows' = Append(logRows, [type |-> type, timestamp |-> now])
    /\ pendingEvents' = Append(pendingEvents,
                               [type |-> type, timestamp |-> now,
                                pc |-> "insertEvents"])
    /\ IF type = "urge"
       THEN /\ lastUrgeLog' = <<now>>
            /\ hourUrges' = [hourUrges EXCEPT !.logs = @ + 1]
       ELSE UNCHANGED <<lastUrgeLog, hourUrges>>
    /\ UNCHANGED <<tables, handles, profileRows, urgeDuration, savePc, now,
                   unlockStats, urgeEvents, unlockTimes, context, gateStore,
                   predictor, app, lastAppState, listeners, delivered,
                   eventRows, lastCall>>

LogEventCall == \E type \in LogTypes : LogEvent(type)

\* The second INSERT of the call that has waited longest is answered: the
\* events row, then setShowIntervention for an urge, the alert for a safe
\* check-in, and for a lapse the call goes on to loadRiskData. With no
\* events table the INSERT throws into the catch: the logs row stays.
EventInsertLands ==
    /\ lastCall = Idle
    /\ pendingEvents # <<>>
    /\ Head(pendingEvents).pc = "insertEvents"
    /\ LET call == Head(pendingEvents)
       IN  IF "events" \in tables
           THEN /\ eventRows' = Append(eventRows,
                                       [event_type |-> EventTypeOf(call.type),
                                        timestamp |-> call.timestamp,
                                        metadata |-> {"type"}])
                /\ urgeEvents' =
                       IF call.type = "safe" THEN urgeEvents
                       ELSE Append(urgeEvents,
                                   [type |-> EventTypeOf(call.type),
                                    timestamp |-> call.timestamp])
                /\ pendingEvents' =
                       IF call.type = "lapse"
                       THEN <<[call EXCEPT !.pc = "loadRiskData"]>>
                                \o Tail(pendingEvents)
                       ELSE Tail(pendingEvents)
                /\ ui' = [ui EXCEPT !.showIntervention =
                                        @ \/ call.type = "urge"]
           ELSE /\ pendingEvents' = Tail(pendingEvents)
                /\ UNCHANGED <<eventRows, urgeEvents, ui>>
    /\ UNCHANGED <<tables, handles, profileRows, urgeDuration, savePc, now,
                   unlockStats, hourUrges, unlockTimes, lastUrgeLog, context,
                   gateStore, predictor, loads, timers, autoShown, runs,
                   lastAppState, listeners, delivered, logRows, lastCall>>

\* logEvent('lapse') after its two rows: loadRiskData, then the lapse
\* support modal.
LapseLoad ==
    /\ lastCall = Idle
    /\ pendingEvents # <<>>
    /\ Head(pendingEvents).pc = "loadRiskData"
    /\ pendingEvents' = Tail(pendingEvents)
    /\ LoadRiskDataStart(TRUE)
    /\ UNCHANGED <<tables, handles, profileRows, urgeDuration, savePc, now,
                   logStore, context, gateStore, lastAppState, listeners,
                   delivered, eventRows, logRows>>

NextLogs ==
    \/ InitAppTables
    \/ InitAppCollector
    \/ LogTick
    \/ LogEventCall
    \/ EventInsertLands
    \/ LapseLoad

SpecLogs == InitLogs /\ [][NextLogs]_vars

\* The rows of a table with one value in one column and one timestamp.
RowsAt(rows, column, value, timestamp) ==
    Cardinality({i \in 1 .. Len(rows) :
                    rows[i][column] = value /\ rows[i].timestamp = timestamp})

\* C29 as stated: the two logs that a user action writes stay in step. After
\* any sequence of logEvent calls, also ones in which one of the two INSERTs
\* fails, logs has as many rows of type urge as events has URGE_LOGGED rows,
\* with equal timestamps pairwise, and likewise for lapse and LAPSE_LOGGED
\* and for safe and SAFETY_CHECK_IN.
C29_LogsInStep ==
    pendingEvents = <<>> =>
        \A type \in LogTypes :
            \A timestamp \in {OverlapStart + m * MinuteMs : m \in 0 .. MaxLogMinutes} :
                RowsAt(logRows, "type", type, timestamp)
                    = RowsAt(eventRows, "event_type", EventTypeOf(type), timestamp)

====
